------------------------------ MODULE Templates ------------------------------
(***************************************************************************)
(* How a miner comes by its jobs: the listener of htnapi.go (Start,         *)
(* waitForSync, startBlockTemplateListener) and the push after a solved     *)
(* block (the end of submit, onBlockSolved of stratum_server.go), composed  *)
(* with the GetBlockTemplate calls and the cache of GbtCache.               *)
(*                                                                          *)
(* A push is NewBlockAvailable: for each connected miner a goroutine that   *)
(* calls GetBlockTemplate and sends the template as a job.  One miner, which *)
(* stays connected and authorized, is followed; the calls of GbtCache are   *)
(* its goroutines.  reconnect is dead code: waitForSync never returns an    *)
(* error.                                                                   *)
(***************************************************************************)
EXTENDS GbtCache

CONSTANTS
    Miner,             \* the wallet of the miner that is followed
    Configs,           \* the configurations explored
    MineWhenNotSynced, \* mine_when_not_synced
    MaxNotes           \* bound on the notifications not handed over

ASSUME TemplatesAssumption ==
    /\ Miner \in Wallets
    /\ Configs \subseteq Config
    /\ MineWhenNotSynced \in BOOLEAN
    /\ MaxNotes \in Nat \ {0}
    /\ None \notin Nat

VARIABLES
    synced,     \* the node answers, and GetInfo says it is synced
    waiting,    \* callbacks blocked on blockReadyChan, or behind one that is
    listener,   \* the listener's program counter
    solver,     \* the path of a solved block through submit
    job         \* the tip that the miner's last job builds on

listenerVars == <<synced, waiting, listener, solver>>
allVars == <<vars, listenerVars, job>>

TInit ==
    /\ Init /\ cfg \in Configs
    /\ synced \in BOOLEAN
    /\ waiting = 0
    /\ listener = "boot"
    /\ solver = "none"
    /\ job = None

-----------------------------------------------------------------------------
(* The listener                                                             *)

(* Start, up to the loop: the process waits for a synced node unless told    *)
(* not to, the listener registers (an error is only logged, and means that   *)
(* no notification ever comes) and creates its ticker.                       *)
Start ==
    /\ listener = "boot"
    /\ MineWhenNotSynced \/ synced
    /\ listener' = "sync"
    /\ UNCHANGED <<vars, job, synced, waiting, solver>>

(* Mutant of WaitForSync: a node that is not synced ends the listener. *)
WaitForSyncMutant ==
    /\ listener = "sync"
    /\ listener' = IF synced THEN "select" ELSE "stopped"
    /\ UNCHANGED <<vars, job, synced, waiting, solver>>

(* waitForSync(false) returns, from a GetInfo that says the node is synced.  *)
WaitForSync ==
    /\ listener = "sync"
    /\ synced
    /\ listener' = "select"
    /\ UNCHANGED <<vars, job, synced, waiting, solver>>

(* NewBlockAvailable: a goroutine calls GetBlockTemplate for the miner. *)
NewBlockAvailable == \E r \in Calls, fee \in BOOLEAN : Begin(r, Miner, fee)

(* invalidateGBTCache, which does nothing without a cache. *)
InvalidateGBTCache == Invalidate \/ (~cfg.caching /\ UNCHANGED vars)

(* case <-blockReadyChan; Reset also drops a tick that was not received. *)
TakeNotification ==
    /\ listener = "select" /\ waiting > 0
    /\ waiting' = waiting - 1
    /\ InvalidateGBTCache
    /\ listener' = "push"
    /\ UNCHANGED <<job, synced, solver>>

(* Mutant of TakeTick: the timeout only starts the next wait. *)
TakeTickMutant ==
    /\ listener = "select"
    /\ listener' = "sync"
    /\ UNCHANGED <<vars, job, synced, waiting, solver>>

(* case <-ticker.C, "timeout, manually check for new blocks": blockWaitTime  *)
(* is over, if no notification comes first.                                  *)
TakeTick ==
    /\ listener = "select"
    /\ listener' = "push"
    /\ UNCHANGED <<vars, job, synced, waiting, solver>>

(* blockReadyCb, and the next turn of the loop *)
Push ==
    /\ listener = "push"
    /\ NewBlockAvailable
    /\ listener' = "sync"
    /\ UNCHANGED <<job, synced, waiting, solver>>

-----------------------------------------------------------------------------
(* A solved block                                                           *)

(* The node, which submit found synced, accepts a miner's block. *)
SubmitBlock ==
    /\ solver = "none" /\ synced
    /\ job # None
    /\ NodeAdvance
    /\ solver' = "accepted"
    /\ UNCHANGED <<job, synced, waiting, listener>>

(* submit clears the cache ... *)
ClearSolved ==
    /\ solver = "accepted" /\ solver' = "cleared"
    /\ InvalidateGBTCache
    /\ UNCHANGED <<job, synced, waiting, listener>>

(* ... and starts a goroutine that pushes new jobs. *)
PushSolved ==
    /\ solver = "cleared" /\ solver' = "none"
    /\ NewBlockAvailable
    /\ UNCHANGED <<job, synced, waiting, listener>>

-----------------------------------------------------------------------------
(* The goroutines of NewBlockAvailable                                      *)

(* A synced node gives a template; any other one may, or may fail. *)
NodeAnswers(r) ==
    /\ Respond(r)
    /\ call'[r].tmpl = None => ~synced
    /\ UNCHANGED <<listenerVars, job>>

CacheStep(r) ==
    /\ Lookup(r) \/ Acquire(r) \/ Store(r)
    /\ UNCHANGED <<listenerVars, job>>

(* The job is sent. *)
SendJob(r) ==
    /\ call[r].tmpl # None
    /\ Leave(r)
    /\ job' = call[r].tmpl.tip
    /\ UNCHANGED listenerVars

(* The goroutine ends without a job for the miner: there was no template, or *)
(* writeLock was taken at all three attempts of writeWithBackoff.  (Any      *)
(* other error of a write disconnects the miner.)                            *)
NoJobSent(r) == Leave(r) /\ UNCHANGED <<listenerVars, job>>

-----------------------------------------------------------------------------
(* The node and time                                                        *)

(* The node goes away, falls behind or comes back. *)
NodeChanges ==
    /\ synced' = ~synced
    /\ UNCHANGED <<vars, job, waiting, listener, solver>>

(* A notification.  One may come without a new tip, and a new tip without    *)
(* one: the registration failed, or was lost with a connection.              *)
Notify ==
    /\ listener # "boot" /\ waiting < MaxNotes
    /\ waiting' = waiting + 1
    /\ UNCHANGED <<vars, job, synced, listener, solver>>

Environment ==
    /\ Cleanup \/ Tick \/ NodeAdvance
    /\ UNCHANGED <<listenerVars, job>>

Listener == Start \/ WaitForSync \/ TakeNotification \/ TakeTick \/ Push

Goroutine(r) == CacheStep(r) \/ NodeAnswers(r) \/ SendJob(r) \/ NoJobSent(r)

TNext ==
    \/ Listener
    \/ SubmitBlock \/ ClearSolved \/ PushSolved
    \/ \E r \in Calls : Goroutine(r)
    \/ NodeChanges \/ Notify \/ Environment

(* Every goroutine that can go on does.  A waiter gets nodeCallMu, and       *)
(* select, which chooses among the ready channels at random, receives from   *)
(* each of them in the end.  writeLock is held for one write at a time, so   *)
(* not every job finds it taken three times in 15 ms.  Time passes: entries  *)
(* age, the clean-up runs, and the listener gets a notification or its       *)
(* ticker fires.                                                             *)
TFairness ==
    /\ WF_allVars(Listener) /\ SF_allVars(TakeNotification)
    /\ WF_allVars(ClearSolved \/ PushSolved)
    /\ \A r \in Calls :
         /\ WF_allVars(Goroutine(r))
         /\ SF_allVars(Acquire(r) /\ UNCHANGED <<listenerVars, job>>)
    /\ SF_allVars(\E r \in Calls : SendJob(r))
    /\ WF_allVars(Cleanup /\ UNCHANGED <<listenerVars, job>>)
    /\ WF_allVars(Tick /\ UNCHANGED <<listenerVars, job>>)

TSpec == TInit /\ [][TNext]_allVars /\ TFairness

-----------------------------------------------------------------------------
(* Properties                                                               *)

(* Once the node is synced for good, the miner ends up working on its tip:   *)
(* whatever notifications are lost, whichever jobs cannot be sent, whichever *)
(* of two pushes is overtaken by an older one, and although a template       *)
(* fetched before the cache was cleared may be stored after it.              *)
MinersCatchUp ==
    <>[]synced => <>[](job = tip)

(* Once the node is synced for good, a full backlog of callbacks blocked on  *)
(* blockReadyChan does not stay full: the listener takes notifications       *)
(* again, also those that came while it waited for the sync or was busy with *)
(* its ticker.                                                               *)
NotificationsTaken ==
    <>[]synced => (waiting = MaxNotes ~> waiting < MaxNotes)

=============================================================================
