------------------------------ MODULE Sessions ------------------------------
(***************************************************************************)
(* The life of a miner's connection and of the rows it leaves in            *)
(* shareHandler.stats.  Four kinds of goroutines meet here: the accept loop  *)
(* (newClient, OnConnect), a reader per connection (spawnClientListener with *)
(* the authorize and submit handlers), the pushers that every                *)
(* NewBlockAvailable starts, one for each connection, and the one            *)
(* disconnectListener.  A connection ends by the first Disconnect of any of  *)
(* them, which blocks on an unbuffered channel until the disconnectListener  *)
(* takes it.                                                                 *)
(*                                                                          *)
(* WalletAddr and WorkerName are written by the reader one after the other,  *)
(* without a lock, and read one after the other by the pusher and by the     *)
(* disconnectListener, which may see the wallet of one authorize and the     *)
(* worker name of another.  What a pusher sends and what a submission is     *)
(* worth are the business of other modules.                                  *)
(***************************************************************************)
EXTENDS Naturals, FiniteSets, FiniteSetsExt

CONSTANTS
    Addrs,               \* RemoteAddr: several connections may share one
    Wallets, Names,      \* what miners authorize as
    NoWallet, NoName,    \* the empty strings
    maxAuthorizePerConn,
    maxExtranonce,       \* 0 when extranonces are off
    MaxConns,            \* bound on the connections accepted
    MaxAuthorizes,       \* bound on the authorize requests, of all connections
    None

ASSUME SessionsAssumption ==
    /\ NoWallet \notin Wallets /\ NoName \notin Names
    /\ maxAuthorizePerConn \in Nat /\ maxExtranonce \in Nat /\ MaxConns \in Nat
    /\ MaxAuthorizes \in Nat
    /\ None \notin 1..MaxConns

VARIABLES
    clientCounter,  \* connections accepted; their Ids are 1..clientCounter
    nextExtranonce,
    clients,        \* the registered ones
    ctx,            \* StratumContext of each connection
    stats,          \* keys of shareHandler.stats
    removing,       \* the connection whose OnDisconnect is running, and saw
    stray           \* history: rows nobody will remove (see NoGhosts)

vars == <<clientCounter, nextExtranonce, clients, ctx, stats, removing, stray>>

Conns == 1..MaxConns

Keys == {<<a>> : a \in Addrs} \union (Wallets \X (Names \union {NoName}))

(* disc: "open", "closing" while Disconnect waits on the channel, "gone" when *)
(* OnDisconnect is over.  wants: the name a running authorize will set.       *)
(*                                                                            *)
(* A connection may have any number of pushers, and they differ only in where *)
(* they are.  started: one was started; saws: the wallets that getCreateStats *)
(* of a pusher has read, none if there was no worker name.  A place that one  *)
(* pusher reached stays open, as others of the connection may be held up      *)
(* there for any time: that a pusher ends changes nothing.                    *)
Context ==
    [disc : {"open", "closing", "gone"}, addr : Addrs, extranonce : 0..maxExtranonce,
     wallet : Wallets \union {NoWallet}, name : Names \union {NoName},
     wants : Names \union {NoName}, authorized : 0..(maxAuthorizePerConn + 1),
     reader : {"read", "name", "reply", "stats", "done"},
     started : BOOLEAN, saws : SUBSET (Wallets \union {NoWallet})]

NewContext(a) ==
    [disc |-> "open", addr |-> a, extranonce |-> nextExtranonce,
     wallet |-> NoWallet, name |-> NoName, wants |-> NoName, authorized |-> 0,
     reader |-> "read", started |-> FALSE, saws |-> {}]

Live == 1..clientCounter

(* The key of a connection's row is read in two steps: the wallet, unless the *)
(* worker name is empty, and then the name.                                   *)
Saw(x) == IF x.name = NoName THEN NoWallet ELSE x.wallet

RowKey(x, saw) == IF saw = NoWallet THEN <<x.addr>> ELSE <<saw, x.name>>

(* The row of a connection, by what its context says at the moment. *)
Key(x) == RowKey(x, Saw(x))

(* Mutant of Hangup: the second Disconnect of a connection sends as well. *)
HangupMutant(x) == [x EXCEPT !.disc = "closing"]

(* Disconnect: the first caller closes the connection and waits.  *)
Hangup(x) == IF x.disc = "open" THEN [x EXCEPT !.disc = "closing"] ELSE x

(* getCreateStats *)
CreateStats(c, saw) ==
    LET k == RowKey(ctx[c], saw) IN
    /\ stats' = stats \union {k}
    /\ stray' = IF k \notin stats /\ (ctx[c].disc = "gone" \/ k # Key(ctx[c]))
                THEN stray \union {k}
                ELSE stray

-----------------------------------------------------------------------------
(* Mutant of Extranonce: the last value of the range is never given out. *)
ExtranonceMutant == IF nextExtranonce + 1 < maxExtranonce THEN nextExtranonce + 1 ELSE 0

(* nextExtranonce after a connect: it wraps when the range is used up. *)
Extranonce == IF nextExtranonce < maxExtranonce THEN nextExtranonce + 1 ELSE 0

(* newClient and OnConnect, then the reader starts. *)
OnConnect(a) ==
    /\ clientCounter < MaxConns
    /\ clientCounter' = clientCounter + 1
    /\ nextExtranonce' = Extranonce
    /\ clients' = clients \union {clientCounter + 1}
    /\ ctx' = [ctx EXCEPT ![clientCounter + 1] = NewContext(a)]
    /\ UNCHANGED <<stats, removing, stray>>

-----------------------------------------------------------------------------
(* The reader                                                                *)

(* A failed read, a line that does not parse or a handler's error: the       *)
(* reader returns and disconnects.                                           *)
Leave(c) ==
    /\ ctx[c].reader = "read"
    /\ ctx' = [ctx EXCEPT ![c] = [Hangup(@) EXCEPT !.reader = "done"]]
    /\ UNCHANGED <<clientCounter, nextExtranonce, clients, stats, removing, stray>>

(* A row under the old key is nobody's once the key has changed. *)
Rekey(c, new) ==
    LET old == Key(ctx[c]) IN
    stray' = IF old \in stats /\ old # Key(new) THEN stray \union {old} ELSE stray

TooMany(n) == n > maxAuthorizePerConn

(* HandleAuthorize, up to the assignment of WalletAddr. *)
Authorize(c, w, n) ==
    LET x == ctx[c]
        new == [x EXCEPT !.authorized = @ + 1, !.wallet = w, !.wants = n, !.reader = "name"]
    IN
    /\ x.reader = "read"
    /\ MapThenSumSet(LAMBDA d : ctx[d].authorized, Conns) < MaxAuthorizes
    /\ \/ /\ TooMany(x.authorized + 1)
          /\ ctx' = [ctx EXCEPT ![c] = [Hangup(x) EXCEPT !.authorized = @ + 1, !.reader = "done"]]
          /\ UNCHANGED stray
       \/ /\ ~TooMany(x.authorized + 1)
          /\ ctx' = [ctx EXCEPT ![c] = new]
          /\ Rekey(c, new)
    /\ UNCHANGED <<clientCounter, nextExtranonce, clients, stats, removing>>

(* The assignment of WorkerName. *)
SetName(c) ==
    LET new == [ctx[c] EXCEPT !.name = ctx[c].wants, !.wants = NoName, !.reader = "reply"] IN
    /\ ctx[c].reader = "name"
    /\ ctx' = [ctx EXCEPT ![c] = new]
    /\ Rekey(c, new)
    /\ UNCHANGED <<clientCounter, nextExtranonce, clients, stats, removing>>

(* The reply: refused on a closing connection, or the write fails.           *)
Reply(c) ==
    /\ ctx[c].reader = "reply"
    /\ \/ ctx' = [ctx EXCEPT ![c] = [Hangup(@) EXCEPT !.reader = "done"]]
       \/ /\ ctx[c].disc = "open"
          /\ ctx' = [ctx EXCEPT ![c].reader = "stats"]
    /\ UNCHANGED <<clientCounter, nextExtranonce, clients, stats, removing, stray>>

(* The authorize handler of ListenAndServe creates the row. *)
AuthorizeStats(c) ==
    /\ ctx[c].reader = "stats"
    /\ CreateStats(c, Saw(ctx[c]))
    /\ ctx' = [ctx EXCEPT ![c].reader = "read"]
    /\ UNCHANGED <<clientCounter, nextExtranonce, clients, removing>>

(* A submission of a job that was pushed; lines read before the connection   *)
(* closed are still handled.                                                 *)
Submit(c) ==
    /\ ctx[c].reader = "read"
    /\ ctx[c].saws # {}
    /\ CreateStats(c, Saw(ctx[c]))
    /\ UNCHANGED <<clientCounter, nextExtranonce, clients, ctx, removing>>

-----------------------------------------------------------------------------
(* The pushers                                                               *)

(* NewBlockAvailable, under clientLock: another pusher for every connection   *)
(* that is open, whatever the ones before it are doing.                       *)
NewBlockAvailable ==
    LET due == {c \in clients : ctx[c].disc = "open"} IN
    /\ due # {}
    /\ ctx' = [c \in Conns |-> IF c \in due THEN [ctx[c] EXCEPT !.started = TRUE] ELSE ctx[c]]
    /\ UNCHANGED <<clientCounter, nextExtranonce, clients, stats, removing, stray>>

(* A pusher that disconnects: a connection without a wallet is let go after   *)
(* 20 seconds, one whose address the node cannot decode at once.  A pusher    *)
(* whose fetch fails in another way ends.                                     *)
Fetch(c) ==
    /\ ctx[c].started
    /\ ctx' = [ctx EXCEPT ![c] = Hangup(@)]
    /\ UNCHANGED <<clientCounter, nextExtranonce, clients, stats, removing, stray>>

(* A template has come, for a wallet that stays set once it was.  AddJob, then *)
(* the worker's vardiff is looked up: getCreateStats reads the wallet.  When  *)
(* mining solo it is looked up only with the first job or a new network       *)
(* difficulty.                                                                *)
Look(c) ==
    /\ ctx[c].started /\ ctx[c].wallet # NoWallet
    /\ ctx' = [ctx EXCEPT ![c].saws = @ \union {Saw(ctx[c])}]
    /\ UNCHANGED <<clientCounter, nextExtranonce, clients, stats, removing, stray>>

(* The row is created and the job sent; a failed write disconnects. *)
Track(c, saw) ==
    /\ saw \in ctx[c].saws
    /\ CreateStats(c, saw)
    /\ \/ UNCHANGED ctx
       \/ ctx' = [ctx EXCEPT ![c] = Hangup(@)]
    /\ UNCHANGED <<clientCounter, nextExtranonce, clients, removing>>

-----------------------------------------------------------------------------
(* The disconnectListener                                                    *)

(* Mutant of TakeDisconnect: the connection stays registered. *)
TakeDisconnectMutant(c) ==
    /\ removing = None
    /\ ctx[c].disc = "closing"
    /\ removing' = [conn |-> c, saw |-> Saw(ctx[c])]
    /\ UNCHANGED <<clientCounter, nextExtranonce, clients, ctx, stats, stray>>

(* It takes a connection from the channel and unregisters it, and removeStats *)
(* reads the wallet.                                                          *)
TakeDisconnect(c) ==
    /\ removing = None
    /\ ctx[c].disc = "closing"
    /\ clients' = clients \ {c}
    /\ removing' = [conn |-> c, saw |-> Saw(ctx[c])]
    /\ UNCHANGED <<clientCounter, nextExtranonce, ctx, stats, stray>>

(* Mutant of Removed: only the row of the address goes. *)
RemovedMutant(x, saw) == {<<x.addr>>}

(* removeStats: the row of the worker and the row of the address, whoever     *)
(* else uses them.                                                            *)
Removed(x, saw) == {RowKey(x, saw), <<x.addr>>}

RemoveStats ==
    LET c == removing.conn
        x == ctx[c]
        gone == Removed(x, removing.saw)
        torn == RowKey(x, removing.saw) # Key(x)
    IN
    /\ removing # None
    /\ removing' = None
    /\ ctx' = [ctx EXCEPT ![c].disc = "gone"]
    /\ stats' = stats \ gone
    /\ stray' = (stray \ gone) \union (IF torn THEN (stats \ gone) \intersect {Key(x)} ELSE {})
    /\ UNCHANGED <<clientCounter, nextExtranonce, clients>>

-----------------------------------------------------------------------------
(* The connections of the model are the ones from some moment on: those that  *)
(* came and went before it have used up a part of the range of extranonces.   *)
Init ==
    /\ clientCounter = 0
    /\ nextExtranonce \in 0..maxExtranonce
    /\ clients = {}
    /\ \E a \in Addrs : ctx = [c \in Conns |-> NewContext(a)]
    /\ stats = {}
    /\ removing = None
    /\ stray = {}

Next ==
    \/ \E a \in Addrs : OnConnect(a)
    \/ NewBlockAvailable
    \/ RemoveStats
    \/ \E c \in Live :
         \/ Leave(c)
         \/ \E w \in Wallets, n \in Names \union {NoName} : Authorize(c, w, n)
         \/ SetName(c) \/ Reply(c) \/ AuthorizeStats(c) \/ Submit(c)
         \/ Fetch(c) \/ Look(c)
         \/ \E saw \in ctx[c].saws : Track(c, saw)
         \/ TakeDisconnect(c)

(* The disconnectListener runs, and takes the connections that wait on the    *)
(* channel in the order they came (Go's channels queue their senders).        *)
Fairness == WF_vars(RemoveStats) /\ \A c \in Conns : SF_vars(TakeDisconnect(c))

Spec == Init /\ [][Next]_vars /\ Fairness

-----------------------------------------------------------------------------
(* Properties                                                                *)

(* The state keeps its shape; a registered connection is never one whose      *)
(* OnDisconnect is over, and the connection being removed has hung up.        *)
TypeOK ==
    /\ clientCounter \in 0..MaxConns /\ nextExtranonce \in 0..maxExtranonce
    /\ clients \in SUBSET Live
    /\ ctx \in [Conns -> Context]
    /\ stats \in SUBSET Keys /\ stray \in SUBSET Keys
    /\ removing \in [conn : Live, saw : Wallets \union {NoWallet}] \union {None}
    /\ \A c \in clients : ctx[c].disc # "gone"
    /\ removing # None => ctx[removing.conn].disc = "closing"

(* Two connected miners search the same nonces only when the extranonces have *)
(* wrapped: at least maxExtranonce others connected between them (OnConnect). *)
ExtranonceApart ==
    \A c, d \in clients :
        c < d /\ ctx[c].extranonce = ctx[d].extranonce => d - c > maxExtranonce

(* A row outlives its connection in two ways only: the connection authorized  *)
(* as another worker, under a running reader of its name too, or a goroutine  *)
(* of it that was still under way created the row after removeStats.  All     *)
(* other rows are of a connection that removeStats has yet to come to         *)
(* (OnDisconnect).                                                            *)
NoGhosts ==
    \A k \in stats \ stray : \E c \in Live : ctx[c].disc # "gone" /\ Key(ctx[c]) = k

(* A connection that hangs up, by whichever goroutine, is unregistered and    *)
(* cleaned up, although Disconnect blocks on an unbuffered channel served by  *)
(* one goroutine.                                                             *)
EveryDisconnectHandled ==
    \A c \in Conns : ctx[c].disc = "closing" ~> (ctx[c].disc = "gone" /\ c \notin clients)

(* OnDisconnect runs once for each connection: the channel is not sent to     *)
(* twice.                                                                     *)
GoneForGood == [][\A c \in Live : ctx[c].disc = "gone" => ctx'[c].disc = "gone"]_vars

=============================================================================
