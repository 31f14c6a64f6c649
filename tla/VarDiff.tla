------------------------------ MODULE VarDiff ------------------------------
(***************************************************************************)
(* The difficulty of one connection: the pushers of NewBlockAvailable, which *)
(* keep MiningState.stratumDiff and tell the miner about it, and the vardiff  *)
(* thread of share_handler.go, which judges the worker's share rate and sets *)
(* a new MinDiff for the pushers to pick up.  Nothing here is locked: two    *)
(* pushers of a connection interleave with each other and with the thread.   *)
(*                                                                          *)
(* Rates are integers, tolerances are percentages, time is counted in        *)
(* minutes.  A difficulty is a multiple of the smallest one that is not 0:   *)
(* divided often enough, it is 0.                                            *)
(***************************************************************************)
EXTENDS Integers, Sequences

CONSTANTS
    Pushers,           \* goroutines of NewBlockAvailable for the connection
    minShareDiff,
    NetDiffs,          \* network difficulties (solo mining uses these)
    expectedShareRate, \* shares per minute
    windows,           \* in minutes; 0 marks the final one
    tolerances,        \* in percent
    MaxMinutes,        \* bound on the time a tracker runs
    MaxFound,          \* bound on the shares found in that time
    NoDiff             \* stratumDiff is nil, nothing was told

ASSUME VarDiffAssumption ==
    /\ minShareDiff \in Nat \ {0} /\ NetDiffs \subseteq Nat \ {0}
    /\ expectedShareRate \in Nat \ {0}
    /\ Len(windows) > 0 /\ Len(tolerances) = Len(windows)
    /\ windows \in Seq(Nat) /\ tolerances \in Seq(0..100)
    /\ \A w \in DOMAIN windows : windows[w] = 0 <=> w = Len(windows)
    /\ MaxMinutes \in Nat /\ MaxFound \in Nat
    /\ NoDiff \notin Nat

VARIABLES
    solo,        \* cfg.SoloMining
    initialized, \* of MiningState, like the next two
    stratumDiff,
    bigDiff,     \* the network difficulty of the newest template
    stats,       \* the worker's WorkStats, as far as vardiff goes
    next,        \* the MinDiff that updateVarDiff is about to store
    push,        \* where each pusher is
    told,        \* what the miner was last told
    found,       \* history: shares the worker found since the tracker started
    again,       \* history: a second pusher has set the difficulty up
    amiss        \* history: the last message was lost, or not of the newest difficulty

vars == <<solo, initialized, stratumDiff, bigDiff, stats, next, push, told, found, again, amiss>>

Stats == [on : BOOLEAN, minutes : 0..MaxMinutes, shares : Nat, window : DOMAIN windows,
          minDiff : Nat]

Pusher == [pc : {"idle", "init", "flag", "create", "value", "tell", "write", "set", "read",
                 "choose", "apply", "start"},
           then : {"set", "start"}, diff : Nat]

Idle == [pc |-> "idle", then |-> "set", diff |-> 0]

-----------------------------------------------------------------------------
(* The vardiff thread                                                        *)

(* |1 - ratio| >= tolerance, where ratio is the share rate to the expected. *)
Breaches(shares, minutes, tolerance) ==
    LET expected == minutes * expectedShareRate
        off == IF shares > expected THEN shares - expected ELSE expected - shares
    IN 100 * off >= tolerance * expected

(* diff * ratio *)
Scaled(diff, shares, minutes) == (diff * shares) \div (minutes * expectedShareRate)

(* Mutant of Lowered: the distance from the expected rate is taken for the    *)
(* ratio, and not cut off.                                                    *)
LoweredMutant(diff, shares, minutes) ==
    Scaled(diff, shares - minutes * expectedShareRate, minutes)

(* diff * math.Max(ratio, 0.1) *)
Lowered(diff, shares, minutes) ==
    IF 10 * shares > minutes * expectedShareRate
    THEN Scaled(diff, shares, minutes)
    ELSE diff \div 10

(* updateVarDiff *)
Updated(s, diff) == [s EXCEPT !.on = FALSE, !.window = 1, !.minDiff = diff]

(* Mutant of Judge: a low count in the current window raises the difficulty. *)
JudgeMutant(s) ==
    IF 100 * s.shares <= windows[s.window] * expectedShareRate * (100 - tolerances[s.window])
    THEN Updated(s, 10 * s.minDiff)
    ELSE s

(* What the thread makes of a worker: the same, the next window, or a new     *)
(* difficulty and no tracker.  The final window is judged by the rate alone;  *)
(* before it, the windows passed (but the first) by the rate, and the current *)
(* one by the number of shares, its lower bound only when it is over.         *)
Judge(s) ==
    LET window == windows[s.window]
        tolerance == tolerances[s.window]
        limit == window * expectedShareRate
        passed == 2..(s.window - 1)
        scaled == Updated(s, Scaled(s.minDiff, s.shares, s.minutes))
    IN CASE window = 0 ->
              IF Breaches(s.shares, s.minutes, tolerance) THEN scaled ELSE s
         [] window # 0 /\ \E i \in passed : Breaches(s.shares, s.minutes, tolerances[i]) ->
              scaled
         [] OTHER ->
              CASE 100 * s.shares >= limit * (100 + tolerance) -> scaled
                [] 100 * s.shares < limit * (100 + tolerance) /\ s.minutes < window -> s
                [] OTHER ->
                     IF 100 * s.shares <= limit * (100 - tolerance)
                     THEN Updated(s, Lowered(s.minDiff, s.shares, s.minutes))
                     ELSE [s EXCEPT !.window = @ + 1]

(* One look of the thread at the worker.  updateVarDiff stops the tracker ... *)
Look ==
    LET seen == Judge(stats) IN
    /\ next = NoDiff
    /\ stats.on /\ stats.minutes > 0
    /\ stats' = [seen EXCEPT !.minDiff = stats.minDiff]
    /\ next' = IF seen.on THEN NoDiff ELSE seen.minDiff
    /\ UNCHANGED <<solo, initialized, stratumDiff, bigDiff, push, told, found, again,
                   amiss>>

(* ... and then stores the new difficulty. *)
StoreDiff ==
    /\ next # NoDiff
    /\ stats' = [stats EXCEPT !.minDiff = next]
    /\ next' = NoDiff
    /\ UNCHANGED <<solo, initialized, stratumDiff, bigDiff, push, told, found, again,
                   amiss>>

(* Time passes for a running tracker. *)
Minute ==
    /\ stats.on /\ stats.minutes < MaxMinutes
    /\ stats' = [stats EXCEPT !.minutes = @ + 1]
    /\ UNCHANGED <<solo, initialized, stratumDiff, bigDiff, next, push, told, found, again,
                   amiss>>

(* The worker finds a share.  HandleSubmit counts it in SharesFound and in    *)
(* SharesDiff; VarDiffSharesFound is nowhere incremented.                     *)
FindShare ==
    /\ stats.on /\ found < MaxFound
    /\ found' = found + 1
    /\ UNCHANGED <<solo, initialized, stratumDiff, bigDiff, stats, next, push, told, again,
                   amiss>>

(* The row is another one: removeStats of a connection that mined as the same *)
(* worker has deleted it, or the miner has authorized as a new worker, and    *)
(* getCreateStats makes it anew, without a difficulty and a tracker.  What    *)
(* the thread was about to store goes to the old row.                         *)
NewRow ==
    /\ stats' = [on |-> FALSE, minutes |-> 0, shares |-> 0, window |-> 1, minDiff |-> 0]
    /\ next' = NoDiff
    /\ found' = 0
    /\ UNCHANGED <<solo, initialized, stratumDiff, bigDiff, push, told, again, amiss>>

-----------------------------------------------------------------------------
(* The pushers                                                               *)

Goto(p, pc) == push' = [push EXCEPT ![p].pc = pc]

(* Mutant of Started: the test for a running tracker is the wrong way round. *)
StartedMutant(s) == IF s.on THEN [s EXCEPT !.on = TRUE, !.minutes = 0, !.shares = 0] ELSE s

(* startVarDiff *)
Started(s) == IF s.on THEN s ELSE [s EXCEPT !.on = TRUE, !.minutes = 0, !.shares = 0]

(* A template arrives; its bits are stored and the job is added. *)
NewBlock(p, diff) ==
    /\ push[p].pc = "idle"
    /\ bigDiff' = diff
    /\ Goto(p, "init")
    /\ UNCHANGED <<solo, initialized, stratumDiff, stats, next, told, found, again, amiss>>

(* The first pusher sets the difficulty up; others may come by meanwhile, and *)
(* a second one that comes before the flag is set does the same again.        *)
Initialize(p) ==
    /\ push[p].pc = "init"
    /\ Goto(p, IF initialized THEN "read" ELSE "flag")
    /\ UNCHANGED <<solo, initialized, stratumDiff, bigDiff, stats, next, told, found, again,
                   amiss>>

Flag(p) ==
    /\ push[p].pc = "flag"
    /\ initialized' = TRUE
    /\ again' = (again \/ initialized)
    /\ Goto(p, "create")
    /\ UNCHANGED <<solo, stratumDiff, bigDiff, stats, next, told, found, amiss>>

(* newHoosatDiff has the value 0 ... *)
Create(p) ==
    /\ push[p].pc = "create"
    /\ stratumDiff' = 0
    /\ Goto(p, "value")
    /\ UNCHANGED <<solo, initialized, bigDiff, stats, next, told, found, again, amiss>>

(* ... until it is given one.  Solo miners are not told about it. *)
SetValue(p) ==
    /\ push[p].pc = "value"
    /\ stratumDiff' = minShareDiff
    /\ push' = [push EXCEPT ![p].pc = IF solo THEN "set" ELSE "tell", ![p].then = "set"]
    /\ UNCHANGED <<solo, initialized, bigDiff, stats, next, told, found, again, amiss>>

(* sendClientDiff: the value is read and put into a message ... *)
Tell(p) ==
    /\ push[p].pc = "tell"
    /\ push' = [push EXCEPT ![p].pc = "write", ![p].diff = stratumDiff]
    /\ UNCHANGED <<solo, initialized, stratumDiff, bigDiff, stats, next, told, found, again,
                   amiss>>

(* ... that is written to the socket, or not. *)
Write(p) ==
    /\ push[p].pc = "write"
    /\ \/ told' = push[p].diff /\ amiss' = (push[p].diff # stratumDiff)
       \/ amiss' = TRUE /\ UNCHANGED told
    /\ Goto(p, push[p].then)
    /\ UNCHANGED <<solo, initialized, stratumDiff, bigDiff, stats, next, found, again>>

(* setClientVardiff, once for the connection. *)
SetClientVardiff(p) ==
    /\ push[p].pc = "set"
    /\ stats' = Started([stats EXCEPT !.on = FALSE, !.window = 1, !.minDiff = minShareDiff])
    /\ found' = 0
    /\ Goto(p, "read")
    /\ UNCHANGED <<solo, initialized, stratumDiff, bigDiff, next, told, again, amiss>>

(* The difficulty there should be: the network's, or getClientVardiff's. *)
Read(p) ==
    /\ push[p].pc = "read"
    /\ push' = [push EXCEPT ![p].pc = "choose",
                            ![p].diff = IF solo THEN bigDiff ELSE stats.minDiff]
    /\ UNCHANGED <<solo, initialized, stratumDiff, bigDiff, stats, next, told, found, again,
                   amiss>>

(* It is compared with the one in force.  Where there is none to set, the one *)
(* in force stays, or becomes the minimum if that is missing too.             *)
Choose(p) ==
    LET diff == push[p].diff IN
    /\ push[p].pc = "choose"
    /\ \/ /\ diff # 0 /\ diff # stratumDiff
          /\ Goto(p, "apply")
          /\ UNCHANGED stratumDiff
       \/ /\ diff \in {0, stratumDiff}
          /\ stratumDiff' = IF stratumDiff = NoDiff THEN minShareDiff ELSE stratumDiff
          /\ push' = [push EXCEPT ![p] = Idle]
    /\ UNCHANGED <<solo, initialized, bigDiff, stats, next, told, found, again, amiss>>

(* Mutant of Apply: the new difficulty is not sent. *)
ApplyMutant(p) ==
    /\ push[p].pc = "apply"
    /\ stratumDiff' = push[p].diff
    /\ push' = [push EXCEPT ![p].pc = "start"]
    /\ UNCHANGED <<solo, initialized, bigDiff, stats, next, told, found, again, amiss>>

(* A new one is set, and will be sent. *)
Apply(p) ==
    /\ push[p].pc = "apply"
    /\ stratumDiff' = push[p].diff
    /\ push' = [push EXCEPT ![p].pc = "tell", ![p].then = "start"]
    /\ UNCHANGED <<solo, initialized, bigDiff, stats, next, told, found, again, amiss>>

(* startClientVardiff *)
StartClientVardiff(p) ==
    /\ push[p].pc = "start"
    /\ stats' = Started(stats)
    /\ found' = IF stats.on THEN found ELSE 0
    /\ push' = [push EXCEPT ![p] = Idle]
    /\ UNCHANGED <<solo, initialized, stratumDiff, bigDiff, next, told, again, amiss>>

-----------------------------------------------------------------------------
Init ==
    /\ solo \in BOOLEAN
    /\ initialized = FALSE
    /\ stratumDiff = NoDiff
    /\ bigDiff = NoDiff
    /\ stats = [on |-> FALSE, minutes |-> 0, shares |-> 0, window |-> 1, minDiff |-> 0]
    /\ next = NoDiff
    /\ push = [p \in Pushers |-> Idle]
    /\ told = NoDiff
    /\ found = 0
    /\ again = FALSE
    /\ amiss = FALSE

Work(p) ==
    \/ Initialize(p) \/ Flag(p) \/ Create(p) \/ SetValue(p) \/ Tell(p) \/ Write(p)
    \/ SetClientVardiff(p) \/ Read(p) \/ Choose(p) \/ Apply(p)
    \/ StartClientVardiff(p)

Next ==
    \/ Look \/ StoreDiff \/ Minute \/ FindShare \/ NewRow
    \/ \E p \in Pushers : Work(p) \/ \E diff \in NetDiffs : NewBlock(p, diff)

(* Goroutines run on, the thread goes on, and templates keep coming. *)
Fairness ==
    /\ WF_vars(StoreDiff)
    /\ \A p \in Pushers : WF_vars(Work(p) \/ \E diff \in NetDiffs : NewBlock(p, diff))

Spec == Init /\ [][Next]_vars /\ Fairness

-----------------------------------------------------------------------------
(* Properties                                                                *)

(* The state keeps its shape: the window is one of the table, and difficulties *)
(* never fall below 0.                                                        *)
TypeOK ==
    /\ solo \in BOOLEAN /\ initialized \in BOOLEAN
    /\ stratumDiff \in Nat \union {NoDiff} /\ bigDiff \in NetDiffs \union {NoDiff}
    /\ stats \in Stats
    /\ next \in Nat \union {NoDiff}
    /\ push \in [Pushers -> Pusher]
    /\ told \in Nat \union {NoDiff}
    /\ found \in 0..MaxFound
    /\ again \in BOOLEAN /\ amiss \in BOOLEAN

(* When no push is under way, the miner was told the difficulty its shares    *)
(* are checked against, however the pushes of the connection were interleaved, *)
(* unless the last message was lost or written after another pusher had       *)
(* changed the difficulty: nothing repeats or corrects that one.  A solo      *)
(* miner is not told the minimum, be it the network's difficulty or not       *)
(* (NewBlockAvailable, sendClientDiff).                                       *)
ToldIsChecked ==
    ~amiss /\ (\A p \in Pushers : push[p].pc = "idle") =>
        told = stratumDiff \/ (solo /\ stratumDiff = minShareDiff)

(* A tracker that updateVarDiff stopped is started again with the next        *)
(* blocks, in any interleaving with the pushers, when not mining solo: else   *)
(* the worker's difficulty would never move again.  It stays off only for a   *)
(* row without a difficulty, a new one or one divided down to 0, or after a   *)
(* second set-up: its minimum may be lowered to the difficulty in force, which *)
(* no pusher then sends.                                                      *)
TrackerRestarts ==
    (~solo /\ initialized /\ ~again /\ ~stats.on /\ stats.minDiff # 0)
        ~> (stats.on \/ stats.minDiff = 0 \/ again)

(* Whatever the number of shares and the window, a verdict moves the          *)
(* difficulty the way the share rate asks for: up when it is above the        *)
(* expected rate, down when it is below (startVardiffThread).                 *)
JudgeFollowsRate ==
    stats.minutes > 0 =>
        \A n \in 0..(2 * MaxMinutes * expectedShareRate), w \in DOMAIN windows :
            LET seen == Judge([stats EXCEPT !.shares = n, !.window = w]) IN
            /\ seen.minDiff > stats.minDiff => n > stats.minutes * expectedShareRate
            /\ seen.minDiff < stats.minDiff => n < stats.minutes * expectedShareRate

(* "number of shares per minute the vardiff engine should target": the engine *)
(* lowers the difficulty only of a worker that finds fewer shares than that.  *)
LoweredOnlyIfSlow ==
    [][~solo /\ next = NoDiff /\ next' # NoDiff /\ next' < stats.minDiff =>
           found < stats.minutes * expectedShareRate]_vars

=============================================================================
