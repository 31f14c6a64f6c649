------------------------------ MODULE GbtCache ------------------------------
(***************************************************************************)
(* Block templates and their cache: GetBlockTemplate, invalidateGBTCache    *)
(* and startCacheCleanupThread of htnapi.go.  Every goroutine of            *)
(* NewBlockAvailable calls GetBlockTemplate for its connection; the calls   *)
(* share the cache (gbtCacheMu, held for one map access), and the calls to  *)
(* the node are serialised by nodeCallMu.                                   *)
(*                                                                          *)
(* Time is kept as the age of each entry, which saturates at the TTL: all   *)
(* the code asks is whether an entry is that old.  A template is its payout *)
(* address, the state of the DAG it builds on, and whether its extra data   *)
(* names a worker.                                                          *)
(***************************************************************************)
EXTENDS Naturals

CONSTANTS
    Wallets,    \* miners' payout addresses
    FeeAddress, \* the bridge's
    Calls,      \* names for the concurrent GetBlockTemplate calls
    TTL,        \* the cache's TTL, where there is one
    MaxTip,     \* bound on the blocks found
    None, Free

Addresses == Wallets \union {FeeAddress}

ASSUME GbtAssumption ==
    /\ TTL \in Nat \ {0} /\ MaxTip \in Nat
    /\ Free \notin Calls
    /\ FeeAddress \notin Wallets

Template == [pays : Addresses, tip : Nat, named : BOOLEAN]

Entry == [tmpl : Template, age : 0..TTL]

ASSUME NoneAssumption == None \notin Template /\ None \notin Entry

VARIABLES
    cfg,     \* the configuration the bridge was started with
    cache,   \* gbtCache
    call,    \* the calls in progress
    nodeMu,  \* nodeCallMu
    tip      \* how far the DAG has moved on, at the node

vars == <<cfg, cache, call, nodeMu, tip>>

(* gbtCacheTTL > 0, poll and vote are not zero, the fee is enabled and salted *)
Config == [caching : BOOLEAN, poll : BOOLEAN, vote : BOOLEAN, fee : BOOLEAN]

Call == [pc     : {"idle", "lookup", "wait", "rpc", "store", "done"},
         payout : Addresses,
         fee    : BOOLEAN,
         tmpl   : Template \union {None},
         isFee  : BOOLEAN]

Idle == [pc |-> "idle", payout |-> FeeAddress, fee |-> FALSE, tmpl |-> None,
         isFee |-> FALSE]

(* gbtCacheTTL > 0 && poll == 0 && vote == 0 *)
Cacheable == cfg.caching /\ ~cfg.poll /\ ~cfg.vote

(* Mutant of NamesWorker: the extra data of the time before the cache. *)
NamesWorkerMutant == TRUE

(* The extra data names the worker without a cache, or with poll and vote. *)
NamesWorker == ~cfg.caching \/ (cfg.poll /\ cfg.vote)

-----------------------------------------------------------------------------
(* GetBlockTemplate                                                          *)

(* The payout address is chosen: the bridge's, for the calls that            *)
(* ShouldReplaceGBT picks, or the miner's; an error of GetBlockDAGInfo means *)
(* the miner's.                                                              *)
Begin(r, wallet, fee) ==
    /\ call[r].pc = "idle"
    /\ fee => cfg.fee
    /\ call' = [call EXCEPT ![r] =
                  [pc |-> IF Cacheable THEN "lookup" ELSE "wait",
                   payout |-> IF fee THEN FeeAddress ELSE wallet,
                   fee |-> fee, tmpl |-> None, isFee |-> FALSE]]
    /\ UNCHANGED <<cfg, cache, nodeMu, tip>>

Return(r, tmpl, isFee) ==
    call' = [call EXCEPT ![r] = [@ EXCEPT !.pc = "done", !.tmpl = tmpl, !.isFee = isFee]]

Fresh(a) == cache[a] # None /\ cache[a].age < TTL

(* A hit, which is never a fee job as far as the caller is told, or a miss. *)
Lookup(r) ==
    LET a == call[r].payout IN
    /\ call[r].pc = "lookup"
    /\ \/ Fresh(a) /\ Return(r, cache[a].tmpl, FALSE)
       \/ ~Fresh(a) /\ call' = [call EXCEPT ![r] = [@ EXCEPT !.pc = "wait"]]
    /\ UNCHANGED <<cfg, cache, nodeMu, tip>>

Acquire(r) ==
    /\ call[r].pc = "wait"
    /\ nodeMu = Free
    /\ nodeMu' = r
    /\ call' = [call EXCEPT ![r] = [@ EXCEPT !.pc = "rpc"]]
    /\ UNCHANGED <<cfg, cache, tip>>

(* Mutant of Respond: an error returns without releasing nodeCallMu. *)
RespondMutant(r) ==
    LET tmpl == [pays |-> call[r].payout, tip |-> tip, named |-> NamesWorker] IN
    /\ call[r].pc = "rpc"
    /\ \/ /\ nodeMu' = Free
          /\ IF Cacheable
             THEN call' = [call EXCEPT ![r] = [@ EXCEPT !.pc = "store", !.tmpl = tmpl]]
             ELSE Return(r, tmpl, call[r].fee)
       \/ Return(r, None, FALSE) /\ UNCHANGED nodeMu
    /\ UNCHANGED <<cfg, cache, tip>>

(* The node's answer, or an error. *)
Respond(r) ==
    LET tmpl == [pays |-> call[r].payout, tip |-> tip, named |-> NamesWorker] IN
    /\ call[r].pc = "rpc"
    /\ nodeMu' = Free
    /\ \/ /\ Cacheable
          /\ call' = [call EXCEPT ![r] = [@ EXCEPT !.pc = "store", !.tmpl = tmpl]]
       \/ /\ ~Cacheable
          /\ Return(r, tmpl, call[r].fee)
       \/ Return(r, None, FALSE)
    /\ UNCHANGED <<cfg, cache, tip>>

(* Mutant of Store: the entry of the wrong address. *)
StoreMutant(r) ==
    /\ call[r].pc = "store"
    /\ \E a \in Addresses : cache' = [cache EXCEPT ![a] = [tmpl |-> call[r].tmpl, age |-> 0]]
    /\ Return(r, call[r].tmpl, FALSE)
    /\ UNCHANGED <<cfg, nodeMu, tip>>

(* The template enters the cache under its payout address. *)
Store(r) ==
    /\ call[r].pc = "store"
    /\ cache' = [cache EXCEPT ![call[r].payout] = [tmpl |-> call[r].tmpl, age |-> 0]]
    /\ Return(r, call[r].tmpl, FALSE)
    /\ UNCHANGED <<cfg, nodeMu, tip>>

(* The caller takes the template and pushes the job. *)
Leave(r) ==
    /\ call[r].pc = "done"
    /\ call' = [call EXCEPT ![r] = Idle]
    /\ UNCHANGED <<cfg, cache, nodeMu, tip>>

-----------------------------------------------------------------------------
(* invalidateGBTCache, after a block was solved or announced. *)
Invalidate ==
    /\ cfg.caching
    /\ cache' = [a \in Addresses |-> None]
    /\ UNCHANGED <<cfg, call, nodeMu, tip>>

(* Mutant of Cleanup: entries of miners only. *)
CleanupMutant ==
    /\ cfg.caching
    /\ cache' = [a \in Addresses |->
                    IF a \in Wallets /\ cache[a] # None /\ ~Fresh(a) THEN None ELSE cache[a]]
    /\ cache' # cache
    /\ UNCHANGED <<cfg, call, nodeMu, tip>>

(* One tick of startCacheCleanupThread that finds something to do. *)
Cleanup ==
    /\ cfg.caching
    /\ cache' = [a \in Addresses |-> IF Fresh(a) THEN cache[a] ELSE None]
    /\ cache' # cache
    /\ UNCHANGED <<cfg, call, nodeMu, tip>>

Aged(e) == IF e # None /\ e.age < TTL THEN [e EXCEPT !.age = @ + 1] ELSE e

Tick ==
    /\ cache' = [a \in Addresses |-> Aged(cache[a])]
    /\ cache' # cache
    /\ UNCHANGED <<cfg, call, nodeMu, tip>>

(* The DAG moves on at the node. *)
NodeAdvance ==
    /\ tip < MaxTip
    /\ tip' = tip + 1
    /\ UNCHANGED <<cfg, cache, call, nodeMu>>

Init ==
    /\ cfg \in Config
    /\ cache = [a \in Addresses |-> None]
    /\ call = [r \in Calls |-> Idle]
    /\ nodeMu = Free
    /\ tip = 0

Next ==
    \/ \E r \in Calls :
         \/ \E wallet \in Wallets, fee \in BOOLEAN : Begin(r, wallet, fee)
         \/ Lookup(r) \/ Acquire(r) \/ Respond(r) \/ Store(r) \/ Leave(r)
    \/ Invalidate \/ Cleanup \/ Tick \/ NodeAdvance

(* A call runs on; a waiter gets nodeCallMu (Go's mutexes do not starve a    *)
(* waiter); the node answers, in the end with a timeout; the clean-up        *)
(* thread's ticker fires.                                                    *)
Fairness ==
    /\ \A r \in Calls : /\ WF_vars(Lookup(r)) /\ SF_vars(Acquire(r))
                        /\ WF_vars(Respond(r)) /\ WF_vars(Store(r))
    /\ WF_vars(Cleanup)

Spec == Init /\ [][Next]_vars /\ Fairness

-----------------------------------------------------------------------------
(* Properties                                                               *)

(* The state keeps its shape, and nodeCallMu is held by the call that talks  *)
(* to the node and by no other.                                              *)
TypeOK ==
    /\ cfg \in Config
    /\ cache \in [Addresses -> Entry \union {None}]
    /\ call \in [Calls -> Call]
    /\ nodeMu \in Calls \union {Free}
    /\ \A r \in Calls : nodeMu = r <=> call[r].pc = "rpc"
    /\ tip \in 0..MaxTip

(* A call returns a template that pays the address it selected, whichever    *)
(* call fetched it: the miners' and the bridge's templates are never mixed   *)
(* up in the cache (htnapi.go, "This prevents any race conditions or mixups  *)
(* between miner rewards and bridge taxes").                                 *)
PaysSelected ==
    \A r \in Calls : call[r].pc = "done" /\ call[r].tmpl # None =>
        call[r].tmpl.pays = call[r].payout

(* A template that connections share names none of their workers. *)
SharedNamesNoWorker == \A a \in Addresses : cache[a] # None => ~cache[a].tmpl.named

(* An expired entry does not stay in the map. *)
ExpiredGoes ==
    \A a \in Addresses :
        cache[a] # None /\ ~Fresh(a) ~> cache[a] = None \/ Fresh(a)

(* Every call returns. *)
CallsReturn == \A r \in Calls : call[r].pc # "idle" ~> call[r].pc \in {"done", "idle"}

=============================================================================
