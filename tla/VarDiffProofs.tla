---------------------------- MODULE VarDiffProofs ----------------------------
(* Proofs about the difficulty of a connection, for any number of pushers and *)
(* any windows, tolerances, rates and network difficulties.                   *)
EXTENDS VarDiff, TLAPS

Places == {"idle", "init", "flag", "create", "value", "tell", "write", "set", "read", "choose",
           "apply", "start"}

-----------------------------------------------------------------------------
(* The pushers' places                                                        *)

LEMMA IdleType == Idle \in Pusher /\ Idle.pc = "idle"
BY DEF Idle, Pusher

LEMMA PushUpdate ==
    ASSUME push \in [Pushers -> Pusher], NEW p \in Pushers, NEW y \in Pusher,
           push' = [push EXCEPT ![p] = y]
    PROVE  /\ push' \in [Pushers -> Pusher]
           /\ push'[p] = y
           /\ \A q \in Pushers : q # p => push'[q] = push[q]
OBVIOUS

LEMMA GotoFacts ==
    ASSUME push \in [Pushers -> Pusher], NEW p \in Pushers, NEW pc \in Places, Goto(p, pc)
    PROVE  /\ push' \in [Pushers -> Pusher]
           /\ push'[p].pc = pc /\ push'[p].then = push[p].then /\ push'[p].diff = push[p].diff
           /\ \A q \in Pushers : q # p => push'[q] = push[q]
<1>1. push[p] \in Pusher
  OBVIOUS
<1>2. PICK y : y = [push[p] EXCEPT !.pc = pc]
  OBVIOUS
<1>3. y \in Pusher /\ y.pc = pc /\ y.then = push[p].then /\ y.diff = push[p].diff
  BY <1>1, <1>2 DEF Pusher, Places
<1>4. push' = [push EXCEPT ![p] = y]
  BY <1>2 DEF Goto
<1> QED BY <1>3, <1>4, PushUpdate

LEMMA GotoThen ==
    ASSUME push \in [Pushers -> Pusher], NEW p \in Pushers, NEW pc \in Places,
           NEW then \in {"set", "start"},
           push' = [push EXCEPT ![p].pc = pc, ![p].then = then]
    PROVE  /\ push' \in [Pushers -> Pusher]
           /\ push'[p].pc = pc /\ push'[p].then = then /\ push'[p].diff = push[p].diff
           /\ \A q \in Pushers : q # p => push'[q] = push[q]
<1>1. push[p] \in Pusher
  OBVIOUS
<1>2. PICK x : x = [push[p] EXCEPT !.pc = pc]
  OBVIOUS
<1>3. PICK y : y = [x EXCEPT !.then = then]
  OBVIOUS
<1>4. x \in Pusher /\ x.pc = pc /\ x.diff = push[p].diff
  BY <1>1, <1>2 DEF Pusher, Places
<1>5. y \in Pusher /\ y.pc = pc /\ y.then = then /\ y.diff = push[p].diff
  BY <1>3, <1>4 DEF Pusher
<1>6. PICK f : f = [push EXCEPT ![p] = x]
  OBVIOUS
<1>7. f \in [Pushers -> Pusher] /\ f[p] = x /\ \A q \in Pushers : q # p => f[q] = push[q]
  BY <1>4, <1>6
<1>8. push' = [f EXCEPT ![p].then = then]
  BY <1>2, <1>6
<1>9. push' = [f EXCEPT ![p] = y]
  BY <1>3, <1>7, <1>8
<1> QED BY <1>5, <1>7, <1>9

LEMMA GotoDiff ==
    ASSUME push \in [Pushers -> Pusher], NEW p \in Pushers, NEW pc \in Places,
           NEW diff \in Nat,
           push' = [push EXCEPT ![p].pc = pc, ![p].diff = diff]
    PROVE  /\ push' \in [Pushers -> Pusher]
           /\ push'[p].pc = pc /\ push'[p].diff = diff /\ push'[p].then = push[p].then
           /\ \A q \in Pushers : q # p => push'[q] = push[q]
<1>1. push[p] \in Pusher
  OBVIOUS
<1>2. PICK x : x = [push[p] EXCEPT !.pc = pc]
  OBVIOUS
<1>3. PICK y : y = [x EXCEPT !.diff = diff]
  OBVIOUS
<1>4. x \in Pusher /\ x.pc = pc /\ x.then = push[p].then
  BY <1>1, <1>2 DEF Pusher, Places
<1>5. y \in Pusher /\ y.pc = pc /\ y.diff = diff /\ y.then = push[p].then
  BY <1>3, <1>4 DEF Pusher
<1>6. PICK f : f = [push EXCEPT ![p] = x]
  OBVIOUS
<1>7. f \in [Pushers -> Pusher] /\ f[p] = x /\ \A q \in Pushers : q # p => f[q] = push[q]
  BY <1>4, <1>6
<1>8. push' = [f EXCEPT ![p].diff = diff]
  BY <1>2, <1>6
<1>9. push' = [f EXCEPT ![p] = y]
  BY <1>3, <1>7, <1>8
<1> QED BY <1>5, <1>7, <1>9

-----------------------------------------------------------------------------
(* The vardiff thread                                                         *)

(* The table has no window after the final one, which 0 marks. *)
LEMMA WindowFacts ==
    /\ 1 \in DOMAIN windows /\ DOMAIN tolerances = DOMAIN windows
    /\ \A w \in DOMAIN windows : /\ windows[w] \in Nat /\ tolerances[w] \in 0..100
                                 /\ windows[w] # 0 => w + 1 \in DOMAIN windows
    /\ expectedShareRate \in Nat \ {0}
<1>1. /\ windows \in Seq(Nat) /\ tolerances \in Seq(0..100) /\ Len(tolerances) = Len(windows)
      /\ Len(windows) > 0 /\ expectedShareRate \in Nat \ {0}
      /\ \A w \in DOMAIN windows : windows[w] = 0 <=> w = Len(windows)
  BY VarDiffAssumption
<1>2. DOMAIN windows = 1..Len(windows) /\ DOMAIN tolerances = 1..Len(windows) /\ Len(windows) \in Nat
  BY <1>1
<1>3. \A w \in 1..Len(windows) : windows[w] \in Nat /\ tolerances[w] \in 0..100
  <2>1. \A w \in 1..Len(windows) : windows[w] \in Nat
    BY <1>1
  <2>2. \A w \in 1..Len(tolerances) : tolerances[w] \in 0..100
    <3> DEFINE percent == 0..100
    <3>1. tolerances \in Seq(percent)
      BY <1>1
    <3> HIDE DEF percent
    <3>2. \A w \in 1..Len(tolerances) : tolerances[w] \in percent
      BY <3>1
    <3> QED BY <3>2 DEF percent
  <2> QED BY <1>1, <2>1, <2>2
<1>4. 1 \in 1..Len(windows)
  BY <1>1, <1>2
<1>5. \A w \in 1..Len(windows) : windows[w] # 0 => w + 1 \in 1..Len(windows)
  BY <1>1, <1>2
<1> QED BY <1>1, <1>2, <1>3, <1>4, <1>5

LEMMA ProductPositive == ASSUME NEW m \in Nat \ {0}, NEW n \in Nat \ {0} PROVE m * n \in Nat \ {0}
OBVIOUS

LEMMA ProductNat == ASSUME NEW m \in Nat, NEW n \in Nat PROVE m * n \in Nat
OBVIOUS

LEMMA QuotientNat == ASSUME NEW m \in Nat, NEW n \in Nat \ {0} PROVE m \div n \in Nat
OBVIOUS

-----------------------------------------------------------------------------
(* Type correctness                                                           *)

(* What a pusher reads is there. *)
Present ==
    \A p \in Pushers : /\ push[p].pc # "idle" => bigDiff \in NetDiffs
                       /\ push[p].pc = "tell" => stratumDiff \in Nat

TypeInv == TypeOK /\ Present

LEMMA UpdatedType ==
    ASSUME NEW s \in Stats, NEW diff \in Nat
    PROVE  Updated(s, diff) \in Stats
BY WindowFacts DEF Updated, Stats

LEMMA StartedType == ASSUME NEW s \in Stats PROVE Started(s) \in Stats
<1>1. CASE s.on
  BY <1>1 DEF Started
<1>2. CASE ~s.on
  <2>1. Started(s) = [s EXCEPT !.on = TRUE, !.minutes = 0, !.shares = 0]
    BY <1>2 DEF Started
  <2>2. 0 \in 0..MaxMinutes /\ 0 \in Nat /\ TRUE \in BOOLEAN
    BY VarDiffAssumption
  <2>3. [s EXCEPT !.on = TRUE, !.minutes = 0, !.shares = 0] \in Stats
    BY <2>2 DEF Stats
  <2> QED BY <2>1, <2>3
<1> QED BY <1>1, <1>2

(* A verdict is a row with another difficulty or with the next window, and    *)
(* the final window has no next one.                                          *)
LEMMA JudgeType == ASSUME NEW s \in Stats, s.minutes > 0 PROVE Judge(s) \in Stats
<1> DEFINE scaled == Scaled(s.minDiff, s.shares, s.minutes)
           lowered == Lowered(s.minDiff, s.shares, s.minutes)
           wider == [s EXCEPT !.window = @ + 1]
<1>1. s.minDiff \in Nat /\ s.shares \in Nat /\ s.minutes \in Nat \ {0}
  BY VarDiffAssumption DEF Stats
<1>2. s.minutes * expectedShareRate \in Nat \ {0} /\ s.minDiff * s.shares \in Nat
  BY <1>1, WindowFacts, ProductPositive, ProductNat
<1>3. scaled \in Nat
  BY <1>2, QuotientNat DEF Scaled
<1>4. lowered \in Nat
  BY <1>1, <1>3, QuotientNat DEF Lowered
<1>5. Updated(s, scaled) \in Stats /\ Updated(s, lowered) \in Stats
  <2> HIDE DEF scaled, lowered
  <2> QED BY <1>3, <1>4, UpdatedType
<1>6. windows[s.window] # 0 => wider \in Stats
  <2>1. s.window \in DOMAIN windows
    BY DEF Stats
  <2>2. windows[s.window] # 0 => s.window + 1 \in DOMAIN windows
    BY <2>1, WindowFacts
  <2> QED BY <2>2 DEF Stats
<1>7. Judge(s) \in {s, Updated(s, scaled), Updated(s, lowered)}
        \/ (windows[s.window] # 0 /\ Judge(s) = wider)
  BY DEF Judge
<1> HIDE DEF scaled, lowered, wider
<1> QED BY <1>5, <1>6, <1>7

LEMMA TypeInit == Init => TypeInv
<1> SUFFICES ASSUME Init PROVE TypeInv
  OBVIOUS
<1>1. stats \in Stats
  BY WindowFacts, VarDiffAssumption DEF Init, Stats
<1>2. push \in [Pushers -> Pusher] /\ Present
  BY IdleType DEF Init, Present
<1>3. solo \in BOOLEAN /\ initialized \in BOOLEAN /\ again \in BOOLEAN /\ amiss \in BOOLEAN
  BY Zenon DEF Init
<1> QED BY <1>1, <1>2, <1>3, VarDiffAssumption DEF Init, TypeInv, TypeOK

(* Steps of the thread, of time, of the worker and of other connections leave *)
(* the pushers alone.                                                         *)
LEMMA ThreadType ==
    ASSUME TypeInv, Look \/ StoreDiff \/ Minute \/ FindShare \/ NewRow
    PROVE  TypeInv'
<1>1. stats \in Stats
  BY DEF TypeInv, TypeOK
<1>2. CASE Look
  <2>1. stats.minutes > 0 /\ stats.minDiff \in Nat
    BY <1>1, <1>2 DEF Look, Stats
  <2>2. PICK seen : seen = Judge(stats)
    OBVIOUS
  <2>3. seen \in Stats
    BY <1>1, <2>1, <2>2, JudgeType
  <2>4. /\ stats' = [seen EXCEPT !.minDiff = stats.minDiff]
        /\ next' = IF seen.on THEN NoDiff ELSE seen.minDiff
    BY <1>2, <2>2 DEF Look
  <2>5. stats' \in Stats
    BY <2>1, <2>3, <2>4 DEF Stats
  <2>6. next' \in Nat \union {NoDiff}
    BY <2>3, <2>4 DEF Stats
  <2> QED BY <1>2, <2>5, <2>6 DEF Look, TypeInv, TypeOK, Present
<1>3. CASE StoreDiff
  <2>1. next \in Nat
    BY <1>3 DEF StoreDiff, TypeInv, TypeOK
  <2>2. stats' \in Stats
    BY <1>1, <1>3, <2>1 DEF StoreDiff, Stats
  <2> QED BY <1>3, <2>2 DEF StoreDiff, TypeInv, TypeOK, Present
<1>4. CASE Minute
  <2>1. stats.minutes + 1 \in 0..MaxMinutes
    BY <1>1, <1>4, VarDiffAssumption DEF Minute, Stats
  <2>2. stats' \in Stats
    BY <1>1, <1>4, <2>1 DEF Minute, Stats
  <2> QED BY <1>4, <2>2 DEF Minute, TypeInv, TypeOK, Present
<1>5. CASE FindShare
  <2>1. found' \in 0..MaxFound
    BY <1>5, VarDiffAssumption DEF FindShare, TypeInv, TypeOK
  <2> QED BY <1>5, <2>1 DEF FindShare, TypeInv, TypeOK, Present
<1>6. CASE NewRow
  <2>1. stats' \in Stats /\ found' \in 0..MaxFound
    BY <1>6, WindowFacts, VarDiffAssumption DEF NewRow, Stats
  <2> QED BY <1>6, <2>1 DEF NewRow, TypeInv, TypeOK, Present
<1> QED BY <1>2, <1>3, <1>4, <1>5, <1>6

(* A pusher's step: push keeps its type, only p moves, and what it will read  *)
(* is there.                                                                  *)
LEMMA PresentStep ==
    ASSUME TypeInv, NEW p \in Pushers,
           \A q \in Pushers : q # p => push'[q] = push[q],
           bigDiff' \in NetDiffs,
           stratumDiff' = stratumDiff \/ stratumDiff' \in Nat,
           push'[p].pc = "tell" => stratumDiff' \in Nat
    PROVE  Present'
BY DEF TypeInv, Present

LEMMA NewBlockType ==
    ASSUME TypeInv, NEW p \in Pushers, NEW diff \in NetDiffs, NewBlock(p, diff)
    PROVE  TypeInv'
<1>1. push \in [Pushers -> Pusher] /\ Goto(p, "init") /\ "init" \in Places
  BY DEF TypeInv, TypeOK, NewBlock, Places
<1>2. /\ push' \in [Pushers -> Pusher] /\ push'[p].pc = "init"
      /\ \A q \in Pushers : q # p => push'[q] = push[q]
  BY <1>1, GotoFacts
<1>3. /\ bigDiff' = diff
      /\ UNCHANGED <<solo, initialized, stratumDiff, stats, next, told, found, again, amiss>>
  BY DEF NewBlock
<1>4. Present'
  BY <1>2, <1>3, PresentStep
<1> QED BY <1>2, <1>3, <1>4 DEF TypeInv, TypeOK

LEMMA WorkType == ASSUME TypeInv, NEW p \in Pushers, Work(p) PROVE TypeInv'
<1>1. push \in [Pushers -> Pusher] /\ push[p] \in Pusher /\ stats \in Stats
  BY DEF TypeInv, TypeOK
<1>2. UNCHANGED <<solo, bigDiff>>
  BY DEF Work, Initialize, Flag, Create, SetValue, Tell, Write, SetClientVardiff, Read, Choose,
         Apply, StartClientVardiff
<1>3. push[p].pc # "idle" => bigDiff \in NetDiffs
  BY DEF TypeInv, Present
<1>4. ASSUME /\ push' \in [Pushers -> Pusher]
             /\ \A q \in Pushers : q # p => push'[q] = push[q]
             /\ push[p].pc # "idle"
             /\ stratumDiff' = stratumDiff \/ stratumDiff' \in Nat
             /\ push'[p].pc = "tell" => stratumDiff' \in Nat
             /\ initialized' \in BOOLEAN /\ again' \in BOOLEAN /\ amiss' \in BOOLEAN
             /\ told' \in Nat \union {NoDiff} /\ found' \in 0..MaxFound
             /\ stats' \in Stats /\ next' = next
      PROVE  TypeInv'
  <2>1. Present'
    BY <1>2, <1>3, <1>4, PresentStep
  <2> QED BY <1>2, <1>4, <2>1 DEF TypeInv, TypeOK
<1>5. /\ initialized \in BOOLEAN /\ again \in BOOLEAN /\ amiss \in BOOLEAN
      /\ told \in Nat \union {NoDiff}
      /\ found \in 0..MaxFound /\ 0 \in 0..MaxFound
  BY VarDiffAssumption DEF TypeInv, TypeOK
<1>6. CASE Initialize(p)
  <2>1. PICK pc \in {"read", "flag"} : Goto(p, pc)
    BY <1>6 DEF Initialize
  <2>2. /\ push' \in [Pushers -> Pusher] /\ push'[p].pc = pc
        /\ \A q \in Pushers : q # p => push'[q] = push[q]
    BY <1>1, <2>1, GotoFacts DEF Places
  <2> QED BY <1>1, <1>4, <1>5, <1>6, <2>2 DEF Initialize
<1>7. CASE Flag(p)
  <2>1. /\ push' \in [Pushers -> Pusher] /\ push'[p].pc = "create"
        /\ \A q \in Pushers : q # p => push'[q] = push[q]
    BY <1>1, <1>7, GotoFacts DEF Flag, Places
  <2>2. initialized' \in BOOLEAN /\ again' \in BOOLEAN
    BY <1>5, <1>7, Zenon DEF Flag
  <2> QED BY <1>1, <1>4, <1>5, <1>7, <2>1, <2>2 DEF Flag
<1>8. CASE Create(p)
  <2>1. /\ push' \in [Pushers -> Pusher] /\ push'[p].pc = "value"
        /\ \A q \in Pushers : q # p => push'[q] = push[q]
    BY <1>1, <1>8, GotoFacts DEF Create, Places
  <2> QED BY <1>1, <1>4, <1>5, <1>8, <2>1 DEF Create
<1>9. CASE SetValue(p)
  <2>1. PICK pc \in {"set", "tell"} : push' = [push EXCEPT ![p].pc = pc, ![p].then = "set"]
    BY <1>9 DEF SetValue
  <2>2. /\ push' \in [Pushers -> Pusher]
        /\ \A q \in Pushers : q # p => push'[q] = push[q]
    BY <1>1, <2>1, GotoThen DEF Places
  <2> QED BY <1>1, <1>4, <1>5, <1>9, <2>2, VarDiffAssumption DEF SetValue
<1>10. CASE Tell(p)
  <2>1. stratumDiff \in Nat
    BY <1>10 DEF Tell, TypeInv, Present
  <2>2. /\ push' \in [Pushers -> Pusher] /\ push'[p].pc = "write"
        /\ \A q \in Pushers : q # p => push'[q] = push[q]
    BY <1>1, <1>10, <2>1, GotoDiff DEF Tell, Places
  <2> QED BY <1>1, <1>4, <1>5, <1>10, <2>2 DEF Tell
<1>11. CASE Write(p)
  <2>1. push[p].then \in {"set", "start"} /\ push[p].diff \in Nat
    BY <1>1 DEF Pusher
  <2>2. PICK pc \in {"set", "start"} : pc = push[p].then
    BY <2>1
  <2>3. /\ push' \in [Pushers -> Pusher] /\ push'[p].pc = pc
        /\ \A q \in Pushers : q # p => push'[q] = push[q]
    BY <1>1, <1>11, <2>2, GotoFacts DEF Write, Places
  <2>4. amiss' \in BOOLEAN /\ told' \in Nat \union {NoDiff}
    BY <1>5, <1>11, <2>1 DEF Write
  <2> QED BY <1>1, <1>4, <1>5, <1>11, <2>2, <2>3, <2>4 DEF Write
<1>12. CASE SetClientVardiff(p)
  <2>1. PICK s : s = [stats EXCEPT !.on = FALSE, !.window = 1, !.minDiff = minShareDiff]
    OBVIOUS
  <2>2. s \in Stats
    BY <1>1, <2>1, WindowFacts, VarDiffAssumption DEF Stats
  <2>3. stats' = Started(s)
    BY <1>12, <2>1 DEF SetClientVardiff
  <2>4. stats' \in Stats
    BY <2>2, <2>3, StartedType
  <2>5. /\ push' \in [Pushers -> Pusher] /\ push'[p].pc = "read"
        /\ \A q \in Pushers : q # p => push'[q] = push[q]
    BY <1>1, <1>12, GotoFacts DEF SetClientVardiff, Places
  <2> QED BY <1>4, <1>5, <1>12, <2>4, <2>5 DEF SetClientVardiff
<1>13. CASE Read(p)
  <2>1. bigDiff \in Nat /\ stats.minDiff \in Nat
    BY <1>1, <1>3, <1>13, VarDiffAssumption DEF Read, Stats
  <2>2. PICK diff \in Nat : push' = [push EXCEPT ![p].pc = "choose", ![p].diff = diff]
    BY <1>13, <2>1 DEF Read
  <2>3. /\ push' \in [Pushers -> Pusher] /\ push'[p].pc = "choose"
        /\ \A q \in Pushers : q # p => push'[q] = push[q]
    BY <1>1, <2>2, GotoDiff DEF Places
  <2> QED BY <1>1, <1>4, <1>5, <1>13, <2>3 DEF Read
<1>14. CASE Choose(p)
  <2>1. push[p].diff \in Nat /\ minShareDiff \in Nat
    BY <1>1, VarDiffAssumption DEF Pusher
  <2>2. CASE stratumDiff' = stratumDiff /\ Goto(p, "apply")
    <3>1. /\ push' \in [Pushers -> Pusher] /\ push'[p].pc = "apply"
          /\ \A q \in Pushers : q # p => push'[q] = push[q]
      BY <1>1, <2>2, GotoFacts DEF Places
    <3> QED BY <1>1, <1>4, <1>5, <1>14, <2>1, <2>2, <3>1 DEF Choose
  <2>3. CASE /\ stratumDiff' = IF stratumDiff = NoDiff THEN minShareDiff ELSE stratumDiff
             /\ push' = [push EXCEPT ![p] = Idle]
    <3>1. /\ push' \in [Pushers -> Pusher] /\ push'[p].pc = "idle"
          /\ \A q \in Pushers : q # p => push'[q] = push[q]
      BY <1>1, <2>3, IdleType, PushUpdate
    <3> QED BY <1>1, <1>4, <1>5, <1>14, <2>1, <2>3, <3>1 DEF Choose
  <2> QED BY <1>14, <2>2, <2>3 DEF Choose
<1>15. CASE Apply(p)
  <2>1. push[p].diff \in Nat
    BY <1>1 DEF Pusher
  <2>2. /\ push' \in [Pushers -> Pusher]
        /\ \A q \in Pushers : q # p => push'[q] = push[q]
    BY <1>1, <1>15, GotoThen DEF Apply, Places
  <2> QED BY <1>1, <1>4, <1>5, <1>15, <2>1, <2>2 DEF Apply
<1>16. CASE StartClientVardiff(p)
  <2>1. stats' \in Stats
    BY <1>1, <1>16, StartedType DEF StartClientVardiff
  <2>2. /\ push' \in [Pushers -> Pusher] /\ push'[p].pc = "idle"
        /\ \A q \in Pushers : q # p => push'[q] = push[q]
    BY <1>1, <1>16, IdleType, PushUpdate DEF StartClientVardiff
  <2>3. found' \in 0..MaxFound
    BY <1>5, <1>16 DEF StartClientVardiff
  <2> QED BY <1>4, <1>5, <1>16, <2>1, <2>2, <2>3 DEF StartClientVardiff
<1> QED BY <1>6, <1>7, <1>8, <1>9, <1>10, <1>11, <1>12, <1>13, <1>14, <1>15, <1>16 DEF Work

LEMMA TypeNext == TypeInv /\ [Next]_vars => TypeInv'
<1> SUFFICES ASSUME TypeInv, [Next]_vars PROVE TypeInv'
  OBVIOUS
<1>1. CASE UNCHANGED vars
  BY <1>1 DEF vars, TypeInv, TypeOK, Present
<1>2. CASE Next
  BY <1>2, ThreadType, NewBlockType, WorkType DEF Next
<1> QED BY <1>1, <1>2

(* The state keeps its shape, for any table of windows that ends in the final *)
(* one and any number of shares: the thread never moves past the last window, *)
(* and what it sets is a difficulty (startVardiffThread, NewBlockAvailable).  *)
THEOREM TypeCorrect == Spec => []TypeOK
<1>1. TypeInv => TypeOK
  BY DEF TypeInv
<1> QED BY <1>1, TypeInit, TypeNext, PTL DEF Spec

-----------------------------------------------------------------------------
(* What the miner is told                                                     *)

(* The difficulty is missing only until the first pusher that sets it up has  *)
(* come to Create; a pusher is past the set-up only when the flag is set.     *)
SetUp ==
    /\ \A p \in Pushers : push[p].pc \notin {"idle", "init", "flag"} => initialized
    /\ ~initialized => stratumDiff = NoDiff /\ told = NoDiff
    /\ initialized /\ stratumDiff = NoDiff => \E p \in Pushers : push[p].pc = "create"

(* A pusher that will tell the miner the difficulty in force. *)
Telling(p) ==
    \/ push[p].pc \in {"create", "value", "tell"}
    \/ push[p].pc = "write" /\ push[p].diff = stratumDiff

(* What the miner knows, unless the last message went amiss: the difficulty   *)
(* in force, or a pusher has yet to tell it.                                  *)
Informed ==
    \/ told = stratumDiff
    \/ solo /\ stratumDiff = minShareDiff
    \/ \E p \in Pushers : Telling(p)

ToldInv == SetUp /\ (~amiss => Informed)

LEMMA ToldInit == Init => ToldInv
<1> SUFFICES ASSUME Init PROVE ToldInv
  OBVIOUS
<1>1. \A p \in Pushers : push[p].pc = "idle"
  BY IdleType DEF Init
<1>2. ~initialized /\ told = NoDiff /\ stratumDiff = NoDiff
  BY DEF Init
<1> QED BY <1>1, <1>2 DEF ToldInv, SetUp, Informed

(* The thread, time, the worker and new rows touch nothing of this. *)
LEMMA ThreadTold ==
    ASSUME ToldInv, Look \/ StoreDiff \/ Minute \/ FindShare \/ NewRow \/ UNCHANGED vars
    PROVE  ToldInv'
<1>1. UNCHANGED <<solo, initialized, stratumDiff, push, told, amiss>>
  BY DEF Look, StoreDiff, Minute, FindShare, NewRow, vars
<1> QED BY <1>1 DEF ToldInv, SetUp, Informed, Telling

(* A step of a pusher that leaves the difficulty and what was told alone, and *)
(* is not the end of a message.                                               *)
LEMMA QuietStep ==
    ASSUME ToldInv, NEW p \in Pushers,
           \A q \in Pushers : q # p => push'[q] = push[q],
           UNCHANGED <<solo, stratumDiff, told, amiss>>,
           initialized => initialized',
           push'[p].pc \in {"idle", "init", "flag"} \/ initialized',
           Telling(p) => Telling(p)',
           push[p].pc # "create",
           ~initialized /\ initialized' => push'[p].pc = "create"
    PROVE  ToldInv'
<1>1. SetUp'
  <2>1. \A q \in Pushers : push'[q].pc \notin {"idle", "init", "flag"} => initialized'
    BY DEF ToldInv, SetUp
  <2>2. ~initialized' => stratumDiff = NoDiff /\ told = NoDiff
    BY DEF ToldInv, SetUp
  <2>3. initialized' /\ stratumDiff = NoDiff => \E q \in Pushers : push'[q].pc = "create"
    <3>1. CASE initialized
      BY <3>1 DEF ToldInv, SetUp
    <3>2. CASE ~initialized
      BY <3>2
    <3> QED BY <3>1, <3>2
  <2> QED BY <2>1, <2>2, <2>3 DEF SetUp
<1>2. \A q \in Pushers : Telling(q) => Telling(q)'
  BY DEF Telling
<1> QED BY <1>1, <1>2 DEF ToldInv, Informed

(* A step that sets the difficulty: the pusher will tell it, or need not. *)
LEMMA SettingStep ==
    ASSUME ToldInv, NEW p \in Pushers, initialized,
           \A q \in Pushers : q # p => push'[q] = push[q],
           UNCHANGED <<solo, initialized, told, amiss>>,
           stratumDiff' # NoDiff,
           Telling(p)' \/ (solo /\ stratumDiff' = minShareDiff)
    PROVE  ToldInv'
BY DEF ToldInv, SetUp, Informed

LEMMA NewBlockTold ==
    ASSUME TypeInv, ToldInv, NEW p \in Pushers, NEW diff \in NetDiffs, NewBlock(p, diff)
    PROVE  ToldInv'
<1>1. push \in [Pushers -> Pusher] /\ Goto(p, "init") /\ "init" \in Places
  BY DEF TypeInv, TypeOK, NewBlock, Places
<1>2. push'[p].pc = "init" /\ \A q \in Pushers : q # p => push'[q] = push[q]
  BY <1>1, GotoFacts
<1>3. push[p].pc = "idle" /\ UNCHANGED <<solo, initialized, stratumDiff, told, amiss>>
  BY DEF NewBlock
<1> QED BY <1>2, <1>3, QuietStep DEF Telling

LEMMA WorkTold == ASSUME TypeInv, ToldInv, NEW p \in Pushers, Work(p) PROVE ToldInv'
<1>1. push \in [Pushers -> Pusher] /\ push[p] \in Pusher
  BY DEF TypeInv, TypeOK
<1>2. solo' = solo
  BY DEF Work, Initialize, Flag, Create, SetValue, Tell, Write, SetClientVardiff, Read, Choose,
         Apply, StartClientVardiff
<1>3. push[p].pc \notin {"idle", "init", "flag"} => initialized
  BY DEF ToldInv, SetUp
<1>4. minShareDiff \in Nat /\ minShareDiff # NoDiff /\ 0 # NoDiff /\ NoDiff \notin Nat
  BY VarDiffAssumption
<1>5. CASE Initialize(p)
  <2>1. PICK pc \in {"read", "flag"} : pc = (IF initialized THEN "read" ELSE "flag")
    OBVIOUS
  <2>2. push'[p].pc = pc /\ \A q \in Pushers : q # p => push'[q] = push[q]
    BY <1>1, <1>5, <2>1, GotoFacts DEF Initialize, Places
  <2>3. pc = "read" => initialized
    BY <2>1
  <2> QED BY <1>2, <1>5, <2>2, <2>3, QuietStep DEF Initialize, Telling
<1>6. CASE Flag(p)
  <2>1. push'[p].pc = "create" /\ \A q \in Pushers : q # p => push'[q] = push[q]
    BY <1>1, <1>6, GotoFacts DEF Flag, Places
  <2> QED BY <1>2, <1>6, <2>1, QuietStep DEF Flag, Telling
<1>7. CASE Create(p)
  <2>1. push'[p].pc = "value" /\ \A q \in Pushers : q # p => push'[q] = push[q]
    BY <1>1, <1>7, GotoFacts DEF Create, Places
  <2> QED BY <1>2, <1>3, <1>4, <1>7, <2>1, SettingStep DEF Create, Telling
<1>8. CASE SetValue(p)
  <2>1. PICK pc \in {"set", "tell"} : pc = IF solo THEN "set" ELSE "tell"
    OBVIOUS
  <2>2. push'[p].pc = pc /\ \A q \in Pushers : q # p => push'[q] = push[q]
    BY <1>1, <1>8, <2>1, GotoThen DEF SetValue, Places
  <2>3. pc = "set" => solo
    BY <2>1
  <2> QED BY <1>2, <1>3, <1>4, <1>8, <2>2, <2>3, SettingStep DEF SetValue, Telling
<1>9. CASE Tell(p)
  <2>1. stratumDiff \in Nat
    BY <1>9 DEF Tell, TypeInv, Present
  <2>2. /\ push'[p].pc = "write" /\ push'[p].diff = stratumDiff
        /\ \A q \in Pushers : q # p => push'[q] = push[q]
    BY <1>1, <1>9, <2>1, GotoDiff DEF Tell, Places
  <2> QED BY <1>2, <1>3, <1>9, <2>2, QuietStep DEF Tell, Telling
<1>10. CASE Write(p)
  <2>1. push[p].then \in {"set", "start"} /\ push[p].diff \in Nat
    BY <1>1 DEF Pusher
  <2>2. PICK pc \in {"set", "start"} : pc = push[p].then
    BY <2>1
  <2>3. push'[p].pc = pc /\ \A q \in Pushers : q # p => push'[q] = push[q]
    BY <1>1, <1>10, <2>2, GotoFacts DEF Write, Places
  <2>4. ~amiss' => told' = stratumDiff
    BY <1>10, Zenon DEF Write
  <2>5. push[p].pc = "write" /\ UNCHANGED <<initialized, stratumDiff>>
    BY <1>10 DEF Write
  <2>6. SetUp'
    BY <1>3, <2>3, <2>5 DEF ToldInv, SetUp
  <2> QED BY <2>4, <2>5, <2>6 DEF ToldInv, Informed
<1>11. CASE SetClientVardiff(p)
  <2>1. push'[p].pc = "read" /\ \A q \in Pushers : q # p => push'[q] = push[q]
    BY <1>1, <1>11, GotoFacts DEF SetClientVardiff, Places
  <2> QED BY <1>2, <1>3, <1>11, <2>1, QuietStep DEF SetClientVardiff, Telling
<1>12. CASE Read(p)
  <2>1. bigDiff \in Nat /\ stats.minDiff \in Nat
    BY <1>12, VarDiffAssumption DEF Read, Stats, TypeInv, TypeOK, Present
  <2>2. PICK diff \in Nat : diff = IF solo THEN bigDiff ELSE stats.minDiff
    BY <2>1
  <2>3. push' = [push EXCEPT ![p].pc = "choose", ![p].diff = diff]
    BY <1>12, <2>2, Zenon DEF Read
  <2>4. push'[p].pc = "choose" /\ \A q \in Pushers : q # p => push'[q] = push[q]
    BY <1>1, <2>3, GotoDiff DEF Places
  <2> QED BY <1>2, <1>3, <1>12, <2>4, QuietStep DEF Read, Telling
<1>13. CASE Choose(p)
  <2>1. push[p].pc = "choose" /\ initialized /\ UNCHANGED <<initialized, told, amiss>>
    BY <1>3, <1>13 DEF Choose
  <2>2. CASE stratumDiff' = stratumDiff /\ Goto(p, "apply")
    <3>1. push'[p].pc = "apply" /\ \A q \in Pushers : q # p => push'[q] = push[q]
      BY <1>1, <2>2, GotoFacts DEF Places
    <3> QED BY <1>2, <2>1, <2>2, <3>1, QuietStep DEF Telling
  <2>3. CASE /\ stratumDiff' = IF stratumDiff = NoDiff THEN minShareDiff ELSE stratumDiff
             /\ push' = [push EXCEPT ![p] = Idle]
    <3>1. push'[p].pc = "idle" /\ \A q \in Pushers : q # p => push'[q] = push[q]
      BY <1>1, <2>3, IdleType, PushUpdate
    <3>2. CASE stratumDiff # NoDiff
      BY <1>2, <2>1, <2>3, <3>1, <3>2, QuietStep DEF Telling
    <3>3. CASE stratumDiff = NoDiff
      <4>1. PICK q \in Pushers : push[q].pc = "create"
        BY <2>1, <3>3 DEF ToldInv, SetUp
      <4>2. Telling(q)'
        BY <2>1, <3>1, <4>1 DEF Telling
      <4>3. SetUp'
        BY <1>4, <2>1, <2>3, <3>1, <3>3 DEF ToldInv, SetUp
      <4> QED BY <4>2, <4>3 DEF ToldInv, Informed
    <3> QED BY <3>2, <3>3
  <2> QED BY <1>13, <2>2, <2>3 DEF Choose
<1>14. CASE Apply(p)
  <2>1. push[p].diff \in Nat
    BY <1>1 DEF Pusher
  <2>2. push'[p].pc = "tell" /\ \A q \in Pushers : q # p => push'[q] = push[q]
    BY <1>1, <1>14, GotoThen DEF Apply, Places
  <2>3. stratumDiff' # NoDiff
    BY <1>4, <1>14, <2>1 DEF Apply
  <2> QED BY <1>2, <1>3, <1>14, <2>2, <2>3, SettingStep DEF Apply, Telling
<1>15. CASE StartClientVardiff(p)
  <2>1. push'[p].pc = "idle" /\ \A q \in Pushers : q # p => push'[q] = push[q]
    BY <1>1, <1>15, IdleType, PushUpdate DEF StartClientVardiff
  <2> QED BY <1>2, <1>3, <1>15, <2>1, QuietStep DEF StartClientVardiff, Telling
<1> QED BY <1>5, <1>6, <1>7, <1>8, <1>9, <1>10, <1>11, <1>12, <1>13, <1>14, <1>15 DEF Work

(* The miner was told the difficulty its shares are checked against whenever  *)
(* no push is under way, for any number of pushers and any interleaving of    *)
(* them, unless the last message was lost or overtaken (NewBlockAvailable,    *)
(* sendClientDiff).                                                           *)
THEOREM ToldIsCheckedAlways == Spec => []ToldIsChecked
<1>1. TypeInv /\ ToldInv /\ [Next]_vars => ToldInv'
  BY ThreadTold, NewBlockTold, WorkTold DEF Next
<1>2. ToldInv => ToldIsChecked
  BY DEF ToldInv, Informed, Telling, ToldIsChecked
<1> QED BY <1>1, <1>2, ToldInit, TypeInit, TypeNext, PTL DEF Spec

-----------------------------------------------------------------------------
(* What the thread makes of a share rate                                      *)

LEMMA ProductMonotone ==
    ASSUME NEW k \in Nat, NEW m \in Nat, NEW n \in Nat, m <= n
    PROVE  k * m <= k * n
OBVIOUS

LEMMA ProductStrict ==
    ASSUME NEW k \in Nat \ {0}, NEW m \in Nat, NEW n \in Nat, m < n
    PROVE  m * k < n * k
OBVIOUS

LEMMA Quotient ==
    ASSUME NEW a \in Nat, NEW b \in Nat \ {0}
    PROVE  /\ a \div b \in Nat
           /\ (a \div b) * b <= a
           /\ a < (a \div b + 1) * b
OBVIOUS

(* The quotient of a product: diff * n / e is above diff only if n is above e, *)
(* and below it only if n is below.                                           *)
LEMMA ScaledFollows ==
    ASSUME NEW diff \in Nat, NEW n \in Nat, NEW e \in Nat \ {0}
    PROVE  /\ (diff * n) \div e > diff => n > e
           /\ (diff * n) \div e < diff => n < e
<1> DEFINE product == diff * n
           q == product \div e
<1>1. product \in Nat /\ e \in Nat
  BY ProductNat
<1>2. q \in Nat /\ q * e <= product /\ product < (q + 1) * e
  BY <1>1, Quotient
<1>3. ASSUME q > diff, n <= e PROVE FALSE
  <2>1. product <= diff * e
    BY <1>1, <1>3, ProductMonotone
  <2>2. diff * e < q * e
    <3>1. q \in Nat /\ diff < q
      BY <1>2, <1>3
    <3> QED BY <3>1, ProductStrict
  <2>3. diff * e \in Nat /\ q * e \in Nat
    BY <1>1, <1>2, ProductNat
  <2> HIDE DEF product, q
  <2> QED BY <1>1, <1>2, <2>1, <2>2, <2>3
<1>4. ASSUME q < diff, n >= e PROVE FALSE
  <2>1. diff * e <= product
    BY <1>1, <1>4, ProductMonotone
  <2>2. (q + 1) * e <= diff * e
    <3>1. q + 1 \in Nat /\ q + 1 <= diff
      BY <1>2, <1>4
    <3>2. e * (q + 1) <= e * diff
      <4> HIDE DEF q
      <4> QED BY <1>1, <3>1, ProductMonotone
    <3> HIDE DEF q
    <3> QED BY <1>1, <1>2, <3>2
  <2>3. diff * e \in Nat /\ (q + 1) * e \in Nat
    <3>1. q + 1 \in Nat
      BY <1>2
    <3> HIDE DEF q
    <3> QED BY <1>1, <3>1, ProductNat
  <2> HIDE DEF product, q
  <2> QED BY <1>1, <1>2, <2>1, <2>2, <2>3
<1> HIDE DEF product, q
<1>5. (q > diff => n > e) /\ (q < diff => n < e)
  BY <1>1, <1>2, <1>3, <1>4
<1> QED BY <1>5 DEF product, q

(* Whatever the window, a verdict is one of these. *)
LEMMA Verdicts ==
    ASSUME NEW s \in Stats
    PROVE  Judge(s).minDiff \in {s.minDiff, Scaled(s.minDiff, s.shares, s.minutes),
                                 Lowered(s.minDiff, s.shares, s.minutes)}
<1> DEFINE higher == Updated(s, Scaled(s.minDiff, s.shares, s.minutes))
           lower == Updated(s, Lowered(s.minDiff, s.shares, s.minutes))
           wider == [s EXCEPT !.window = @ + 1]
<1>1. /\ higher.minDiff = Scaled(s.minDiff, s.shares, s.minutes)
      /\ lower.minDiff = Lowered(s.minDiff, s.shares, s.minutes)
      /\ wider.minDiff = s.minDiff
  BY DEF Updated, Stats
<1>2. Judge(s) \in {s, higher, lower, wider}
  BY DEF Judge
<1> HIDE DEF higher, lower, wider
<1> QED BY <1>1, <1>2

LEMMA VerdictFollows ==
    ASSUME NEW s \in Stats, s.minutes > 0
    PROVE  /\ Judge(s).minDiff > s.minDiff => s.shares > s.minutes * expectedShareRate
           /\ Judge(s).minDiff < s.minDiff => s.shares < s.minutes * expectedShareRate
<1>1. s.minDiff \in Nat /\ s.shares \in Nat /\ s.minutes \in Nat \ {0}
  BY VarDiffAssumption DEF Stats
<1>2. PICK e \in Nat \ {0} : e = s.minutes * expectedShareRate
  BY <1>1, WindowFacts, ProductPositive
<1>3. PICK diff \in Nat, n \in Nat : diff = s.minDiff /\ n = s.shares
  BY <1>1
<1>4. PICK scaled : scaled = (diff * n) \div e
  OBVIOUS
<1>5. (scaled > diff => n > e) /\ (scaled < diff => n < e)
  BY <1>4, ScaledFollows
<1>6. Scaled(s.minDiff, s.shares, s.minutes) = scaled
  BY <1>2, <1>3, <1>4 DEF Scaled
<1>7. PICK lowered : lowered = IF 10 * n > e THEN scaled ELSE diff \div 10
  OBVIOUS
<1>8. Lowered(s.minDiff, s.shares, s.minutes) = lowered
  BY <1>2, <1>3, <1>6, <1>7 DEF Lowered
<1>9. (lowered > diff => n > e) /\ (lowered < diff => n < e)
  BY <1>5, <1>7
<1>10. Judge(s).minDiff \in {diff, scaled, lowered}
  BY <1>3, <1>6, <1>8, Verdicts
<1>11. ~(diff > diff) /\ ~(diff < diff)
  OBVIOUS
<1>12. /\ Judge(s).minDiff > diff => n > e
       /\ Judge(s).minDiff < diff => n < e
  BY <1>5, <1>9, <1>10, <1>11
<1> QED BY <1>2, <1>3, <1>12

(* A verdict moves the difficulty the way the share rate asks for, for every  *)
(* table of windows and tolerances and every number of shares                 *)
(* (startVardiffThread).                                                      *)
THEOREM JudgeFollowsRateAlways == Spec => []JudgeFollowsRate
<1>1. TypeInv => JudgeFollowsRate
  <2> SUFFICES ASSUME TypeInv, stats.minutes > 0,
                      NEW n \in 0..(2 * MaxMinutes * expectedShareRate),
                      NEW w \in DOMAIN windows
               PROVE  LET seen == Judge([stats EXCEPT !.shares = n, !.window = w]) IN
                      /\ seen.minDiff > stats.minDiff => n > stats.minutes * expectedShareRate
                      /\ seen.minDiff < stats.minDiff => n < stats.minutes * expectedShareRate
    BY DEF JudgeFollowsRate
  <2>1. stats \in Stats /\ n \in Nat
    BY DEF TypeInv, TypeOK
  <2>2. PICK s : s = [stats EXCEPT !.shares = n, !.window = w]
    OBVIOUS
  <2>3. /\ s \in Stats /\ s.shares = n /\ s.minutes = stats.minutes
        /\ s.minDiff = stats.minDiff
    BY <2>1, <2>2 DEF Stats
  <2>4. /\ Judge(s).minDiff > s.minDiff => s.shares > s.minutes * expectedShareRate
        /\ Judge(s).minDiff < s.minDiff => s.shares < s.minutes * expectedShareRate
    BY <2>3, VerdictFollows
  <2>5. /\ Judge(s).minDiff > stats.minDiff => n > stats.minutes * expectedShareRate
        /\ Judge(s).minDiff < stats.minDiff => n < stats.minutes * expectedShareRate
    BY <2>3, <2>4
  <2> QED BY <2>2, <2>5
<1> QED BY <1>1, TypeInit, TypeNext, PTL DEF Spec

=============================================================================
