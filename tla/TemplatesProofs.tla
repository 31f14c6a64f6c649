-------------------------- MODULE TemplatesProofs --------------------------
(***************************************************************************)
(* Proofs about the template cache, for any set of wallets, any number of   *)
(* concurrent calls and any TTL; and that the composition of the listener,  *)
(* the solved blocks and the goroutines of NewBlockAvailable uses           *)
(* GetBlockTemplate and its cache by their own steps only, so that what is  *)
(* shown of them holds of the composition.                                  *)
(***************************************************************************)
EXTENDS Templates, TLAPS

-----------------------------------------------------------------------------
(* The cache on its own                                                       *)

(* What is in the cache was fetched for the address it is filed under, by a   *)
(* configuration that caches.                                                 *)
CacheRight ==
    \A a \in Addresses : cache[a] # None =>
        Cacheable /\ cache[a].tmpl.pays = a /\ ~cache[a].tmpl.named

(* So is what a call carries to the cache or to its caller. *)
CallRight ==
    \A r \in Calls :
        /\ call[r].pc = "lookup" => Cacheable
        /\ call[r].pc = "store" =>
             /\ Cacheable
             /\ call[r].tmpl \in Template
             /\ call[r].tmpl.pays = call[r].payout
             /\ ~call[r].tmpl.named
        /\ call[r].pc = "done" /\ call[r].tmpl # None => call[r].tmpl.pays = call[r].payout

IInv == TypeOK /\ CacheRight /\ CallRight

LEMMA CacheableNamesNone == Cacheable => ~NamesWorker
BY DEF Cacheable, NamesWorker

(* The template that the node answers with. *)
LEMMA AnswerType ==
    ASSUME TypeOK, NEW r \in Calls
    PROVE  [pays |-> call[r].payout, tip |-> tip, named |-> NamesWorker] \in Template
<1>1. NamesWorker \in BOOLEAN
  BY DEF NamesWorker
<1>2. call[r].payout \in Addresses /\ tip \in Nat
  BY GbtAssumption DEF TypeOK, Call
<1> QED BY <1>1, <1>2 DEF Template

LEMMA InitInv == Init => IInv
<1> SUFFICES ASSUME Init PROVE IInv
  OBVIOUS
<1>1. Idle \in Call
  BY DEF Idle, Call, Addresses
<1>2. TypeOK
  BY <1>1, GbtAssumption DEF Init, TypeOK, Idle
<1> QED BY <1>2 DEF Init, IInv, CacheRight, CallRight, Idle

(* Steps of a call change neither the configuration nor other calls. *)
LEMMA CallStep ==
    ASSUME IInv, NEW r \in Calls, NEW c \in Call,
           call' = [call EXCEPT ![r] = c], cfg' = cfg,
           cache' \in [Addresses -> Entry \union {None}], CacheRight',
           nodeMu' \in Calls \union {Free},
           \A q \in Calls \ {r} : nodeMu' = q <=> nodeMu = q,
           nodeMu' = r <=> c.pc = "rpc",
           tip' = tip,
           c.pc = "lookup" => Cacheable,
           c.pc = "store" =>
             Cacheable /\ c.tmpl \in Template /\ c.tmpl.pays = c.payout /\ ~c.tmpl.named,
           c.pc = "done" /\ c.tmpl # None => c.tmpl.pays = c.payout
    PROVE  IInv'
<1>0. call \in [Calls -> Call]
  BY DEF IInv, TypeOK
<1>1. call'[r] = c /\ \A q \in Calls \ {r} : call'[q] = call[q]
  BY <1>0
<1>2. Cacheable' <=> Cacheable
  BY DEF Cacheable
<1>3. TypeOK'
  <2>1. \A q \in Calls : nodeMu' = q <=> call'[q].pc = "rpc"
    BY <1>1 DEF IInv, TypeOK
  <2> QED BY <1>0, <2>1 DEF IInv, TypeOK
<1>4. CallRight'
  BY <1>1, <1>2 DEF IInv, CallRight
<1> QED BY <1>3, <1>4 DEF IInv

(* An unchanged cache stays right. *)
LEMMA CacheKept ==
    ASSUME IInv, cache' = cache, cfg' = cfg
    PROVE  cache' \in [Addresses -> Entry \union {None}] /\ CacheRight'
BY DEF IInv, TypeOK, CacheRight, Cacheable

(* Steps of the threads: the cache only loses entries or ages. *)
LEMMA ThreadStep ==
    ASSUME IInv, UNCHANGED <<cfg, call, nodeMu>>,
           cache' \in [Addresses -> Entry \union {None}], CacheRight',
           tip' \in 0..MaxTip
    PROVE  IInv'
<1>1. Cacheable' <=> Cacheable
  BY DEF Cacheable
<1> QED BY <1>1 DEF IInv, TypeOK, CallRight

LEMMA NextInv == IInv /\ [Next]_vars => IInv'
<1> SUFFICES ASSUME IInv, [Next]_vars PROVE IInv'
  OBVIOUS
<1> USE GbtAssumption, NoneAssumption
<1>0. call \in [Calls -> Call] /\ tip \in Nat
  BY DEF IInv, TypeOK
<1>1. ASSUME NEW r \in Calls, NEW w \in Wallets, NEW fee \in BOOLEAN, Begin(r, w, fee)
      PROVE  IInv'
  <2> DEFINE c == [pc |-> IF Cacheable THEN "lookup" ELSE "wait",
                   payout |-> IF fee THEN FeeAddress ELSE w,
                   fee |-> fee, tmpl |-> None, isFee |-> FALSE]
  <2>1. c \in Call
    BY <1>0 DEF Call, Addresses
  <2>3. c.pc # "rpc" /\ c.pc # "store" /\ c.pc # "done" /\ (c.pc = "lookup" => Cacheable)
    OBVIOUS
  <2>4. nodeMu # r
    BY <1>1 DEF Begin, IInv, TypeOK
  <2>5. nodeMu \in Calls \union {Free}
    BY DEF IInv, TypeOK
  <2>6. call' = [call EXCEPT ![r] = c] /\ UNCHANGED <<cfg, cache, nodeMu, tip>>
    BY <1>1 DEF Begin
  <2> HIDE DEF c
  <2> QED BY <2>1, <2>3, <2>4, <2>5, <2>6, CacheKept, CallStep
<1>2. ASSUME NEW r \in Calls, Lookup(r) PROVE IInv'
  <2>1. call[r] \in Call /\ call[r].pc = "lookup" /\ Cacheable /\ nodeMu # r
    BY <1>0, <1>2 DEF Lookup, IInv, TypeOK, CallRight
  <2>2. UNCHANGED <<cfg, cache, nodeMu, tip>> /\ nodeMu \in Calls \union {Free}
    BY <1>2 DEF Lookup, IInv, TypeOK
  <2>3. CASE Fresh(call[r].payout) /\ Return(r, cache[call[r].payout].tmpl, FALSE)
    <3> DEFINE a == call[r].payout
               c == [call[r] EXCEPT !.pc = "done", !.tmpl = cache[a].tmpl, !.isFee = FALSE]
    <3>1. a \in Addresses /\ cache[a] # None /\ cache[a] \in Entry
      BY <2>1, <2>3 DEF Fresh, IInv, TypeOK, Call
    <3>2. cache[a].tmpl \in Template /\ cache[a].tmpl.pays = a
      BY <3>1 DEF IInv, CacheRight, Entry
    <3>3. c \in Call
      BY <2>1, <3>2 DEF Call
    <3>4. c.pc = "done" /\ c.tmpl.pays = c.payout
      BY <2>1, <3>2 DEF Call
    <3>5. call' = [call EXCEPT ![r] = c]
      BY <1>0, <2>3 DEF Return
    <3> HIDE DEF c
    <3> QED BY <2>1, <2>2, <3>3, <3>4, <3>5, CacheKept, CallStep
  <2>4. CASE call' = [call EXCEPT ![r] = [@ EXCEPT !.pc = "wait"]]
    <3> DEFINE c == [call[r] EXCEPT !.pc = "wait"]
    <3>1. c \in Call /\ c.pc = "wait"
      BY <2>1 DEF Call
    <3>2. call' = [call EXCEPT ![r] = c]
      BY <1>0, <2>4
    <3> HIDE DEF c
    <3> QED BY <2>1, <2>2, <3>1, <3>2, CacheKept, CallStep
  <2> QED BY <1>2, <2>3, <2>4 DEF Lookup
<1>3. ASSUME NEW r \in Calls, Acquire(r) PROVE IInv'
  <2> DEFINE c == [call[r] EXCEPT !.pc = "rpc"]
  <2>1. call[r] \in Call /\ call[r].pc = "wait"
    BY <1>0, <1>3 DEF Acquire
  <2>2. c \in Call /\ c.pc = "rpc" /\ c.fee = call[r].fee /\ c.payout = call[r].payout
    BY <2>1 DEF Call
  <2>3. call' = [call EXCEPT ![r] = c] /\ UNCHANGED <<cfg, cache, tip>>
    BY <1>0, <1>3 DEF Acquire
  <2>4. nodeMu = Free /\ nodeMu' = r
    BY <1>3 DEF Acquire
  <2>5. \A q \in Calls \ {r} : nodeMu' = q <=> nodeMu = q
    BY <2>4
  <2> HIDE DEF c
  <2> QED BY <2>2, <2>3, <2>4, <2>5, CacheKept, CallStep
<1>4. ASSUME NEW r \in Calls, Respond(r) PROVE IInv'
  <2> DEFINE tmpl == [pays |-> call[r].payout, tip |-> tip, named |-> NamesWorker]
  <2>1. call[r] \in Call /\ call[r].pc = "rpc" /\ nodeMu = r
    BY <1>0, <1>4 DEF Respond, IInv, TypeOK
  <2>2. UNCHANGED <<cfg, cache, tip>> /\ nodeMu' = Free
    BY <1>4 DEF Respond
  <2>3. \A q \in Calls \ {r} : nodeMu' = q <=> nodeMu = q
    BY <2>1, <2>2
  <2>4. tmpl \in Template /\ tmpl.pays = call[r].payout /\ (Cacheable => ~tmpl.named)
    BY AnswerType, CacheableNamesNone DEF IInv
  <2>6. nodeMu' # r /\ nodeMu' \in Calls \union {Free}
    BY <2>2
  <2> HIDE DEF tmpl
  <2>7. CASE Cacheable /\ call' = [call EXCEPT ![r] = [@ EXCEPT !.pc = "store", !.tmpl = tmpl]]
    <3> DEFINE c == [call[r] EXCEPT !.pc = "store", !.tmpl = tmpl]
    <3>1. c \in Call /\ c.pc = "store" /\ c.tmpl = tmpl /\ c.payout = call[r].payout
      BY <2>1, <2>4 DEF Call
    <3>2. call' = [call EXCEPT ![r] = c]
      BY <1>0, <2>7
    <3> HIDE DEF c
    <3> QED BY <2>2, <2>3, <2>4, <2>6, <2>7, <3>1, <3>2, CacheKept, CallStep
  <2>8. CASE ~Cacheable /\ Return(r, tmpl, call[r].fee)
    <3> DEFINE c == [call[r] EXCEPT !.pc = "done", !.tmpl = tmpl, !.isFee = call[r].fee]
    <3>1. c \in Call
      BY <2>1, <2>4 DEF Call
    <3>2. /\ c.pc = "done" /\ c.tmpl = tmpl /\ c.payout = call[r].payout
          /\ c.isFee = call[r].fee /\ c.fee = call[r].fee
      BY <2>1 DEF Call
    <3>3. call' = [call EXCEPT ![r] = c]
      BY <1>0, <2>8 DEF Return
    <3> HIDE DEF c
    <3> QED BY <2>2, <2>3, <2>4, <2>6, <2>8, <3>1, <3>2, <3>3, CacheKept, CallStep
  <2>9. CASE Return(r, None, FALSE)
    <3> DEFINE c == [call[r] EXCEPT !.pc = "done", !.tmpl = None, !.isFee = FALSE]
    <3>1. /\ c \in Call /\ c.pc = "done" /\ c.tmpl = None
          /\ c.fee = call[r].fee /\ c.payout = call[r].payout
      BY <2>1 DEF Call
    <3>2. call' = [call EXCEPT ![r] = c]
      BY <1>0, <2>9 DEF Return
    <3> HIDE DEF c
    <3> QED BY <2>2, <2>3, <2>6, <3>1, <3>2, CacheKept, CallStep
  <2> QED BY <1>4, <2>7, <2>8, <2>9 DEF Respond, tmpl
<1>5. ASSUME NEW r \in Calls, Store(r) PROVE IInv'
  <2> DEFINE a == call[r].payout
             e == [tmpl |-> call[r].tmpl, age |-> 0]
             c == [call[r] EXCEPT !.pc = "done", !.tmpl = call[r].tmpl, !.isFee = FALSE]
  <2>1. call[r] \in Call /\ call[r].pc = "store" /\ nodeMu # r
    BY <1>0, <1>5 DEF Store, IInv, TypeOK
  <2>2. /\ Cacheable /\ call[r].tmpl \in Template
        /\ call[r].tmpl.pays = a /\ ~call[r].tmpl.named
    BY <2>1 DEF IInv, CallRight
  <2>3. UNCHANGED <<cfg, nodeMu, tip>> /\ nodeMu \in Calls \union {Free}
    BY <1>5 DEF Store, IInv, TypeOK
  <2>4. a \in Addresses /\ e \in Entry /\ cache' = [cache EXCEPT ![a] = e]
    BY <1>5, <2>1, <2>2 DEF Store, Call, Entry
  <2>5. cache' \in [Addresses -> Entry \union {None}] /\ CacheRight'
    BY <2>2, <2>3, <2>4 DEF IInv, TypeOK, CacheRight, Cacheable
  <2>6. c \in Call /\ c.pc = "done" /\ c.tmpl = call[r].tmpl /\ c.payout = a
    BY <2>1, <2>2 DEF Call
  <2>7. call' = [call EXCEPT ![r] = c]
    BY <1>0, <1>5 DEF Store, Return
  <2> HIDE DEF a, c, e
  <2> QED BY <2>1, <2>2, <2>3, <2>5, <2>6, <2>7, CallStep
<1>6. ASSUME NEW r \in Calls, Leave(r) PROVE IInv'
  <2>1. Idle \in Call /\ Idle.pc = "idle"
    BY DEF Idle, Call, Addresses
  <2>2. nodeMu # r /\ nodeMu \in Calls \union {Free}
    BY <1>6 DEF Leave, IInv, TypeOK
  <2>3. call' = [call EXCEPT ![r] = Idle] /\ UNCHANGED <<cfg, cache, nodeMu, tip>>
    BY <1>6 DEF Leave
  <2> QED BY <2>1, <2>2, <2>3, CacheKept, CallStep
<1>7. CASE Invalidate
  <2>1. cache' = [a \in Addresses |-> None] /\ UNCHANGED <<cfg, call, nodeMu, tip>>
    BY <1>7 DEF Invalidate
  <2>2. cache' \in [Addresses -> Entry \union {None}] /\ CacheRight'
    BY <2>1 DEF CacheRight
  <2> QED BY <1>0, <2>1, <2>2, ThreadStep DEF IInv, TypeOK
<1>8. CASE Cleanup
  <2>1. /\ cache' = [a \in Addresses |-> IF Fresh(a) THEN cache[a] ELSE None]
        /\ UNCHANGED <<cfg, call, nodeMu, tip>>
    BY <1>8 DEF Cleanup
  <2>2. cache' \in [Addresses -> Entry \union {None}] /\ CacheRight'
    BY <2>1 DEF IInv, TypeOK, CacheRight, Cacheable
  <2> QED BY <2>1, <2>2, ThreadStep DEF IInv, TypeOK
<1>9. CASE Tick
  <2>1. /\ cache' = [a \in Addresses |-> Aged(cache[a])]
        /\ UNCHANGED <<cfg, call, nodeMu, tip>>
    BY <1>9 DEF Tick
  <2>2. ASSUME NEW a \in Addresses
        PROVE  /\ Aged(cache[a]) \in Entry \union {None}
               /\ Aged(cache[a]) # None => cache[a] # None /\ Aged(cache[a]).tmpl = cache[a].tmpl
    <3>1. cache[a] \in Entry \union {None}
      BY DEF IInv, TypeOK
    <3> QED BY <3>1 DEF Aged, Entry
  <2>3. cache' \in [Addresses -> Entry \union {None}]
    BY <2>1, <2>2
  <2>4. CacheRight'
    BY <2>1, <2>2 DEF IInv, CacheRight, Cacheable
  <2> QED BY <2>1, <2>3, <2>4, ThreadStep DEF IInv, TypeOK
<1>10. CASE NodeAdvance
  <2>1. UNCHANGED <<cfg, cache, call, nodeMu>> /\ tip < MaxTip /\ tip' = tip + 1
    BY <1>10 DEF NodeAdvance
  <2>2. tip' \in 0..MaxTip
    BY <1>0, <2>1 DEF IInv, TypeOK
  <2> QED BY <2>1, <2>2, CacheKept, ThreadStep
<1>11. CASE UNCHANGED vars
  <2>1. UNCHANGED <<cfg, cache, call, nodeMu, tip>>
    BY <1>11 DEF vars
  <2> QED BY <2>1, CacheKept, ThreadStep DEF IInv, TypeOK
<1> QED BY <1>1, <1>2, <1>3, <1>4, <1>5, <1>6, <1>7, <1>8, <1>9, <1>10, <1>11 DEF Next

(* What IInv says of the properties. *)
LEMMA InvImplies == IInv => TypeOK /\ PaysSelected /\ SharedNamesNoWorker
<1> SUFFICES ASSUME IInv PROVE PaysSelected /\ SharedNamesNoWorker
  BY DEF IInv
<1>1. PaysSelected
  BY DEF IInv, CallRight, PaysSelected
<1>2. SharedNamesNoWorker
  BY DEF IInv, CacheRight, SharedNamesNoWorker
<1> QED BY <1>1, <1>2

(* nodeCallMu excludes: at most one call is at the node, and the state keeps  *)
(* its shape (GetBlockTemplate).                                              *)
THEOREM TypeCorrect == Spec => []TypeOK
BY InitInv, NextInv, InvImplies, PTL DEF Spec

(* Whatever the interleaving of calls, invalidations and clean-ups, a call    *)
(* returns a template that pays the address it selected (GetBlockTemplate).   *)
THEOREM PaysSelectedAlways == Spec => []PaysSelected
BY InitInv, NextInv, InvImplies, PTL DEF Spec

(* No template in the shared cache names a worker, in any configuration       *)
(* (GetBlockTemplate, extraData).                                             *)
THEOREM SharedNamesNoWorkerAlways == Spec => []SharedNamesNoWorker
BY InitInv, NextInv, InvImplies, PTL DEF Spec

-----------------------------------------------------------------------------
(* The cache as the listener and the solved blocks use it                     *)

(* The cache and its calls change only by the steps of GbtCache: pushes of   *)
(* the listener and of solved blocks (startBlockTemplateListener, submit)    *)
(* begin calls, clear the cache or leave both alone.                         *)
LEMMA CacheStepOnly == [TNext]_allVars => [Next]_vars
<1> SUFFICES ASSUME [TNext]_allVars PROVE [Next]_vars
  OBVIOUS
<1>1. NewBlockAvailable => [Next]_vars
  BY TemplatesAssumption DEF NewBlockAvailable, Next
<1>2. InvalidateGBTCache => [Next]_vars
  BY DEF InvalidateGBTCache, Next
<1>3. Listener => [Next]_vars
  BY <1>1, <1>2 DEF Listener, Start, WaitForSync, TakeNotification, TakeTick, Push
<1>4. SubmitBlock \/ ClearSolved \/ PushSolved => [Next]_vars
  BY <1>1, <1>2 DEF SubmitBlock, ClearSolved, PushSolved, Next
<1>5. ASSUME NEW r \in Calls, Goroutine(r) PROVE Next
  BY <1>5 DEF Goroutine, CacheStep, NodeAnswers, SendJob, NoJobSent, Next
<1>6. NodeChanges \/ Notify => [Next]_vars
  BY DEF NodeChanges, Notify
<1>7. Environment => Next
  BY DEF Environment, Next
<1> QED BY <1>3, <1>4, <1>5, <1>6, <1>7 DEF TNext, allVars

(* The jobs that notifications, the ticker and solved blocks make for a      *)
(* miner come from GetBlockTemplate as it is specified on its own.           *)
THEOREM TemplatesImplementCache == TSpec => Init /\ [][Next]_vars
<1>1. TInit => Init
  BY DEF TInit
<1> QED BY <1>1, CacheStepOnly, PTL DEF TSpec

(* A goroutine of NewBlockAvailable gets a template that pays the address    *)
(* that GetBlockTemplate selected for it, whatever the listener, the ticker  *)
(* and solved blocks do to the cache at the same time.                       *)
THEOREM PushedPaysSelected == TSpec => []PaysSelected
BY TemplatesImplementCache, InitInv, NextInv, InvImplies, PTL

=============================================================================
