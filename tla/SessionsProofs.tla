--------------------------- MODULE SessionsProofs ---------------------------
(* Proofs about sessions, for any number of connections, hosts, wallets and   *)
(* names and any range of extranonces.                                        *)
EXTENDS Sessions, TLAPS

(* A reader that is still at work has not authorized too often. *)
WithinLimit ==
    \A c \in Conns : ctx[c].reader # "done" => ctx[c].authorized <= maxAuthorizePerConn

(* The connection being removed is no longer registered, and has hung up. *)
Unregistered ==
    removing # None => removing.conn \notin clients /\ ctx[removing.conn].disc = "closing"

(* The extranonce of a connection, or of the next one. *)
Nonce(c) == IF c = clientCounter + 1 THEN nextExtranonce ELSE ctx[c].extranonce

(* n places further on in the range of the extranonces *)
Onward(e, n) == IF e + n <= maxExtranonce THEN e + n ELSE e + n - (maxExtranonce + 1)

(* Extranonces are handed out round the range, in the order of connecting. *)
Round ==
    \A c, d \in 1..(clientCounter + 1) :
        c <= d /\ d - c <= maxExtranonce => Nonce(d) = Onward(Nonce(c), d - c)

(* The connections and their registration *)
ConnsInv ==
    /\ clientCounter \in 0..MaxConns /\ nextExtranonce \in 0..maxExtranonce
    /\ clients \in SUBSET Live
    /\ ctx \in [Conns -> Context]
    /\ removing \in [conn : Live, saw : Wallets \union {NoWallet}] \union {None}
    /\ \A c \in clients : ctx[c].disc # "gone"
    /\ Unregistered
    /\ WithinLimit
    /\ Round

(* The rows *)
RowsInv == stats \in SUBSET Keys /\ stray \in SUBSET Keys /\ NoGhosts

IInv == ConnsInv /\ RowsInv

-----------------------------------------------------------------------------
(* Rows and their keys                                                        *)

LEMMA RowKeyType ==
    ASSUME NEW x \in Context, NEW saw \in Wallets \union {NoWallet}
    PROVE  RowKey(x, saw) \in Keys
BY DEF RowKey, Keys, Context

LEMMA SawType == ASSUME NEW x \in Context PROVE Saw(x) \in Wallets \union {NoWallet}
BY DEF Saw, Context

LEMMA KeyType == ASSUME NEW x \in Context PROVE Key(x) \in Keys
BY RowKeyType, SawType DEF Key

(* A key is made of the address, the wallet and the name. *)
LEMMA SameKey ==
    ASSUME NEW x, NEW y, x.addr = y.addr, x.wallet = y.wallet, x.name = y.name
    PROVE  Key(x) = Key(y)
BY DEF Key, RowKey, Saw

LEMMA LiveConns == ASSUME ConnsInv PROVE Live \subseteq Conns
BY SessionsAssumption DEF ConnsInv, Live, Conns

(* Disconnect leaves everything but disc alone, and never undoes a hang-up. *)
LEMMA HangupFacts ==
    ASSUME NEW x \in Context
    PROVE  /\ Hangup(x) \in Context
           /\ Hangup(x).disc = "gone" <=> x.disc = "gone"
           /\ x.disc = "closing" => Hangup(x).disc = "closing"
           /\ Hangup(x).addr = x.addr /\ Hangup(x).wallet = x.wallet /\ Hangup(x).name = x.name
           /\ Hangup(x).extranonce = x.extranonce
           /\ Hangup(x).reader = x.reader /\ Hangup(x).authorized = x.authorized
BY DEF Hangup, Context

-----------------------------------------------------------------------------
(* Steps of one connection                                                    *)

(* What any step of a connection may do to its context. *)
Evolves(x, y) ==
    /\ y \in Context
    /\ x.disc = "gone" <=> y.disc = "gone"
    /\ x.disc = "closing" => y.disc = "closing"
    /\ y.extranonce = x.extranonce
    /\ y.reader # "done" => y.authorized <= maxAuthorizePerConn

LEMMA UpdateFacts ==
    ASSUME ConnsInv, NEW c \in Live, NEW y, ctx' = [ctx EXCEPT ![c] = y]
    PROVE  /\ c \in Conns /\ ctx[c] \in Context
           /\ ctx'[c] = y
           /\ \A d \in Conns : d # c => ctx'[d] = ctx[d]
BY LiveConns DEF ConnsInv

LEMMA EvolveConns ==
    ASSUME ConnsInv, NEW c \in Live, NEW y, Evolves(ctx[c], y), ctx' = [ctx EXCEPT ![c] = y],
           UNCHANGED <<clientCounter, nextExtranonce, clients, removing>>
    PROVE  ConnsInv'
<1>1. Live' = Live /\ Live \subseteq Conns /\ c \in Conns
  BY LiveConns DEF Live
<1>2. ctx'[c] = y /\ \A d \in Conns : d # c => ctx'[d] = ctx[d]
  BY UpdateFacts
<1>3. ctx' \in [Conns -> Context]
  BY <1>1 DEF ConnsInv, Evolves
<1>4. \A d \in clients : ctx'[d].disc # "gone"
  BY <1>1, <1>2 DEF ConnsInv, Evolves
<1>5. Unregistered'
  <2>1. CASE removing = None
    BY <2>1 DEF Unregistered
  <2>2. CASE removing # None
    <3>1. removing.conn \in Live
      BY <2>2 DEF ConnsInv
    <3> QED BY <1>1, <1>2, <2>2, <3>1 DEF ConnsInv, Unregistered, Evolves
  <2> QED BY <2>1, <2>2
<1>6. WithinLimit'
  BY <1>2 DEF ConnsInv, WithinLimit, Evolves
<1>7. \A d \in 1..(clientCounter + 1) : Nonce(d)' = Nonce(d)
  <2> SUFFICES ASSUME NEW d \in 1..(clientCounter + 1), d # clientCounter + 1
               PROVE  ctx'[d].extranonce = ctx[d].extranonce
    BY DEF Nonce
  <2>1. d \in Live
    BY DEF Live, ConnsInv
  <2> QED BY <1>1, <1>2, <2>1 DEF Evolves
<1>8. Round'
  BY <1>7 DEF ConnsInv, Round, Onward
<1> QED BY <1>1, <1>3, <1>4, <1>5, <1>6, <1>8 DEF ConnsInv

(* A step that leaves all keys, the connections that are gone and the rows     *)
(* alone leaves no ghost.                                                     *)
LEMMA EvolveRows ==
    ASSUME IInv, NEW c \in Live, NEW y, Evolves(ctx[c], y), ctx' = [ctx EXCEPT ![c] = y],
           Key(y) = Key(ctx[c]), clientCounter' = clientCounter, UNCHANGED <<stats, stray>>
    PROVE  RowsInv'
<1>1. Live' = Live /\ Live \subseteq Conns
  BY LiveConns DEF Live, IInv
<1>2. ctx'[c] = y /\ \A d \in Conns : d # c => ctx'[d] = ctx[d]
  BY UpdateFacts DEF IInv
<1>3. \A d \in Live : /\ ctx'[d].disc # "gone" <=> ctx[d].disc # "gone"
                      /\ Key(ctx'[d]) = Key(ctx[d])
  BY <1>1, <1>2 DEF Evolves
<1>4. NoGhosts'
  BY <1>1, <1>3 DEF NoGhosts, IInv, RowsInv
<1> QED BY <1>4 DEF IInv, RowsInv

(* Rekey: the row under the old key is given up unless it is the new one's. *)
LEMMA RekeyRows ==
    ASSUME IInv, NEW c \in Live, NEW y, Evolves(ctx[c], y), ctx' = [ctx EXCEPT ![c] = y],
           clientCounter' = clientCounter, stats' = stats, Rekey(c, y)
    PROVE  RowsInv'
<1>1. Live' = Live /\ Live \subseteq Conns
  BY LiveConns DEF Live, IInv
<1>2. ctx'[c] = y /\ ctx[c] \in Context /\ \A d \in Conns : d # c => ctx'[d] = ctx[d]
  BY UpdateFacts DEF IInv
<1>3. Key(ctx[c]) \in Keys
  BY <1>2, KeyType
<1>4. stray' \in SUBSET Keys /\ stray \subseteq stray'
  BY <1>3 DEF Rekey, IInv, RowsInv
<1>5. NoGhosts'
  <2> SUFFICES ASSUME NEW k \in stats \ stray'
               PROVE  \E d \in Live : ctx'[d].disc # "gone" /\ Key(ctx'[d]) = k
    BY <1>1 DEF NoGhosts
  <2>1. PICK d \in Live : ctx[d].disc # "gone" /\ Key(ctx[d]) = k
    BY <1>4 DEF NoGhosts, IInv, RowsInv
  <2>2. CASE d # c
    BY <1>1, <1>2, <2>1, <2>2
  <2>3. CASE d = c
    <3>1. Key(y) = k
      BY <2>1, <2>3 DEF Rekey
    <3> QED BY <1>2, <2>1, <2>3, <3>1 DEF Evolves
  <2> QED BY <2>2, <2>3
<1> QED BY <1>4, <1>5 DEF IInv, RowsInv

(* getCreateStats: a new row is its connection's, or stray from the start. *)
LEMMA CreateRows ==
    ASSUME IInv, NEW c \in Live, NEW y, Evolves(ctx[c], y), ctx' = [ctx EXCEPT ![c] = y],
           Key(y) = Key(ctx[c]), clientCounter' = clientCounter,
           NEW saw \in Wallets \union {NoWallet}, CreateStats(c, saw)
    PROVE  RowsInv'
<1> DEFINE k == RowKey(ctx[c], saw)
<1>1. Live' = Live /\ Live \subseteq Conns
  BY LiveConns DEF Live, IInv
<1>2. ctx'[c] = y /\ ctx[c] \in Context /\ \A d \in Conns : d # c => ctx'[d] = ctx[d]
  BY UpdateFacts DEF IInv
<1>3. k \in Keys
  BY <1>2, RowKeyType
<1>4. /\ stats' = stats \union {k}
      /\ stray' = IF k \notin stats /\ (ctx[c].disc = "gone" \/ k # Key(ctx[c]))
                  THEN stray \union {k} ELSE stray
  BY DEF CreateStats
<1> HIDE DEF k
<1>5. stats' \in SUBSET Keys /\ stray' \in SUBSET Keys /\ stray \subseteq stray'
  BY <1>3, <1>4 DEF IInv, RowsInv
<1>6. \A d \in Live : /\ ctx'[d].disc # "gone" <=> ctx[d].disc # "gone"
                      /\ Key(ctx'[d]) = Key(ctx[d])
  BY <1>1, <1>2 DEF Evolves
<1>7. NoGhosts'
  <2> SUFFICES ASSUME NEW r \in stats' \ stray'
               PROVE  \E d \in Live : ctx[d].disc # "gone" /\ Key(ctx[d]) = r
    BY <1>1, <1>6 DEF NoGhosts
  <2>1. CASE r \in stats
    BY <1>5, <2>1 DEF NoGhosts, IInv, RowsInv
  <2>2. CASE r \notin stats
    BY <1>4, <2>2
  <2> QED BY <2>1, <2>2
<1> QED BY <1>5, <1>7 DEF RowsInv

-----------------------------------------------------------------------------
(* The actions                                                                *)

LEMMA InitInv == Init => IInv
<1> SUFFICES ASSUME Init PROVE IInv
  OBVIOUS
<1>1. PICK a \in Addrs : ctx = [c \in Conns |-> NewContext(a)]
  BY DEF Init
<1>2. NewContext(a) \in Context
  BY SessionsAssumption DEF NewContext, Context, Init
<1>3. Live = {} /\ clientCounter = 0 /\ nextExtranonce \in 0..maxExtranonce /\ removing = None
  BY DEF Live, Init
<1>4. Round
  BY <1>3, SessionsAssumption DEF Round, Nonce, Onward
<1>5. WithinLimit
  BY <1>1, SessionsAssumption DEF WithinLimit, NewContext
<1>6. ConnsInv
  BY <1>1, <1>2, <1>3, <1>4, <1>5, SessionsAssumption DEF ConnsInv, Unregistered, Init
<1>7. RowsInv
  BY DEF RowsInv, NoGhosts, Init
<1> QED BY <1>6, <1>7 DEF IInv

LEMMA OnConnectInv == ASSUME IInv, NEW a \in Addrs, OnConnect(a) PROVE IInv'
<1> DEFINE y == NewContext(a)
<1>0. PICK n \in Nat : n = clientCounter + 1
  BY DEF IInv, ConnsInv
<1>1. /\ clientCounter \in Nat /\ n = clientCounter + 1 /\ n \in Conns /\ clientCounter' = n
      /\ Live' = Live \union {n} /\ n \notin Live /\ Live \subseteq Conns
  BY <1>0, LiveConns, SessionsAssumption DEF IInv, ConnsInv, OnConnect, Live, Conns
<1>2. /\ y \in Context /\ y.disc = "open" /\ y.extranonce = nextExtranonce
      /\ y.authorized = 0
  BY SessionsAssumption DEF IInv, ConnsInv, NewContext, Context
<1>3. ctx' = [ctx EXCEPT ![n] = y] /\ nextExtranonce' = Extranonce /\ clients' = clients \union {n}
      /\ UNCHANGED <<stats, removing, stray>>
  BY <1>0 DEF OnConnect
<1> HIDE DEF y
<1>4. ctx' \in [Conns -> Context] /\ ctx'[n] = y /\ \A d \in Conns : d # n => ctx'[d] = ctx[d]
  BY <1>1, <1>2, <1>3 DEF IInv, ConnsInv
<1>5. nextExtranonce' \in 0..maxExtranonce
  BY <1>3, SessionsAssumption DEF Extranonce, IInv, ConnsInv
<1>6. \A d \in clients' : ctx'[d].disc # "gone"
  BY <1>1, <1>2, <1>3, <1>4 DEF IInv, ConnsInv
<1>7. Unregistered'
  <2>1. CASE removing = None
    BY <1>3, <2>1 DEF Unregistered
  <2>2. CASE removing # None
    <3>1. removing.conn \in Live
      BY <2>2 DEF IInv, ConnsInv
    <3> QED BY <1>1, <1>3, <1>4, <2>2, <3>1 DEF IInv, ConnsInv, Unregistered
  <2> QED BY <2>1, <2>2
<1>8. WithinLimit'
  BY <1>2, <1>4, SessionsAssumption DEF IInv, ConnsInv, WithinLimit
<1>9. Round'
  <2>1. \A d \in 1..n : Nonce(d)' = Nonce(d) /\ Nonce(d) \in 0..maxExtranonce
    <3> SUFFICES ASSUME NEW d \in 1..n
                 PROVE  Nonce(d)' = Nonce(d) /\ Nonce(d) \in 0..maxExtranonce
      OBVIOUS
    <3>1. CASE d = n
      BY <1>1, <1>2, <1>4, <3>1 DEF Nonce, IInv, ConnsInv
    <3>2. CASE d # n
      <4>1. d \in Live /\ d \in Conns
        BY <1>1, <3>2 DEF Live
      <4>2. ctx[d].extranonce \in 0..maxExtranonce
        BY <4>1 DEF IInv, ConnsInv, Context
      <4> QED BY <1>1, <1>4, <3>2, <4>1, <4>2 DEF Nonce
    <3> QED BY <3>1, <3>2
  <2>2. Nonce(n) = nextExtranonce /\ Nonce(n + 1)' = Onward(Nonce(n), 1)
    BY <1>1, <1>3, <1>5, SessionsAssumption DEF Nonce, Extranonce, Onward, IInv, ConnsInv
  <2>3. Nonce(n + 1)' = nextExtranonce' /\ nextExtranonce' \in 0..maxExtranonce
    BY <1>1, <1>5 DEF Nonce
  <2> SUFFICES ASSUME NEW c \in 1..(n + 1), NEW d \in 1..(n + 1), c <= d, d - c <= maxExtranonce
               PROVE  Nonce(d)' = Onward(Nonce(c)', d - c)
    BY <1>1 DEF Round, Onward
  <2>4. CASE d <= n
    <3>1. c \in 1..n /\ d \in 1..n
      BY <1>1, <2>4
    <3>2. Nonce(d) = Onward(Nonce(c), d - c)
      BY <1>1, <3>1 DEF IInv, ConnsInv, Round
    <3> QED BY <2>1, <3>1, <3>2 DEF Onward
  <2>5. CASE d = n + 1 /\ c = n + 1
    BY <1>1, <2>3, <2>5, SessionsAssumption DEF Onward
  <2>6. CASE d = n + 1 /\ c <= n
    <3>1. c \in 1..n /\ n \in 1..n /\ n - c <= maxExtranonce /\ maxExtranonce # 0
      BY <1>1, <2>6, SessionsAssumption
    <3>2. Nonce(n) = Onward(Nonce(c), n - c)
      BY <1>1, <3>1 DEF IInv, ConnsInv, Round
    <3>3. Nonce(c)' = Nonce(c) /\ Nonce(c) \in 0..maxExtranonce
      BY <2>1, <3>1
    <3>4. Nonce(n + 1)' = Onward(Nonce(n), 1)
      BY <2>2, <3>1
    <3> QED BY <1>1, <2>6, <3>1, <3>2, <3>3, <3>4, SessionsAssumption DEF Onward
  <2> QED BY <1>1, <2>4, <2>5, <2>6
<1>10. ConnsInv'
  <2>1. clientCounter' \in 0..MaxConns /\ clients' \in SUBSET Live'
    BY <1>1, <1>3, SessionsAssumption DEF IInv, ConnsInv, Conns
  <2>2. removing' \in [conn : Live', saw : Wallets \union {NoWallet}] \union {None}
    BY <1>1, <1>3 DEF IInv, ConnsInv
  <2> QED BY <1>4, <1>5, <1>6, <1>7, <1>8, <1>9, <2>1, <2>2 DEF ConnsInv
<1>11. NoGhosts'
  BY <1>1, <1>3, <1>4 DEF NoGhosts, IInv, RowsInv
<1> QED BY <1>3, <1>10, <1>11 DEF IInv, RowsInv

(* A step that changes neither address, wallet nor name *)
Keeps(x, y) == y.addr = x.addr /\ y.wallet = x.wallet /\ y.name = x.name

LEMMA OneMore ==
    ASSUME NEW x \in Context, x.authorized <= maxAuthorizePerConn
    PROVE  x.authorized + 1 \in 0..(maxAuthorizePerConn + 1)
<1>1. x.authorized \in 0..(maxAuthorizePerConn + 1)
  BY DEF Context
<1> QED BY <1>1, SessionsAssumption

(* How a goroutine ends in a hang-up: the reader, the one that authorized too *)
(* often too, and a pusher.                                                   *)
LEMMA HangupEvolves ==
    ASSUME NEW x \in Context
    PROVE  /\ Evolves(x, [Hangup(x) EXCEPT !.reader = "done"])
           /\ Keeps(x, [Hangup(x) EXCEPT !.reader = "done"])
           /\ x.authorized <= maxAuthorizePerConn =>
                /\ Evolves(x, [Hangup(x) EXCEPT !.authorized = @ + 1, !.reader = "done"])
                /\ Keeps(x, [Hangup(x) EXCEPT !.authorized = @ + 1, !.reader = "done"])
           /\ (x.reader # "done" => x.authorized <= maxAuthorizePerConn) =>
                /\ Evolves(x, Hangup(x)) /\ Keeps(x, Hangup(x))
<1>1. PICK h \in Context : h = Hangup(x)
  BY HangupFacts
<1>2. /\ h.disc = "gone" <=> x.disc = "gone"
      /\ x.disc = "closing" => h.disc = "closing"
      /\ h.addr = x.addr /\ h.wallet = x.wallet /\ h.name = x.name
      /\ h.extranonce = x.extranonce
      /\ h.reader = x.reader /\ h.authorized = x.authorized
  BY <1>1, HangupFacts
<1>3. /\ Evolves(x, [h EXCEPT !.reader = "done"])
      /\ Keeps(x, [h EXCEPT !.reader = "done"])
  BY <1>2 DEF Evolves, Keeps, Context
<1>4. ASSUME x.authorized <= maxAuthorizePerConn
      PROVE  /\ Evolves(x, [h EXCEPT !.authorized = @ + 1, !.reader = "done"])
             /\ Keeps(x, [h EXCEPT !.authorized = @ + 1, !.reader = "done"])
  <2>1. h.authorized + 1 \in 0..(maxAuthorizePerConn + 1)
    BY <1>2, <1>4, OneMore
  <2>2. [h EXCEPT !.authorized = h.authorized + 1, !.reader = "done"] \in Context
    BY <2>1 DEF Context
  <2> QED BY <1>2, <2>2 DEF Evolves, Keeps, Context
<1>5. ASSUME x.reader # "done" => x.authorized <= maxAuthorizePerConn
      PROVE  Evolves(x, h) /\ Keeps(x, h)
  BY <1>2, <1>5 DEF Evolves, Keeps, Context
<1> QED BY <1>1, <1>3, <1>4, <1>5

(* Steps that touch one context, keep its key and leave the rows alone. *)
LEMMA ContextStep ==
    ASSUME IInv, NEW c \in Live, NEW y, ctx' = [ctx EXCEPT ![c] = y],
           Evolves(ctx[c], y), Keeps(ctx[c], y),
           UNCHANGED <<clientCounter, nextExtranonce, clients, removing, stats, stray>>
    PROVE  IInv'
<1>1. Key(y) = Key(ctx[c])
  BY SameKey DEF Keeps
<1> QED BY <1>1, EvolveConns, EvolveRows DEF IInv

(* What the invariant says of one connection. *)
LEMMA ContextFacts ==
    ASSUME IInv, NEW c \in Live
    PROVE  /\ ctx[c] \in Context /\ c \in Conns
           /\ ctx[c].reader # "done" => ctx[c].authorized <= maxAuthorizePerConn
BY LiveConns DEF IInv, ConnsInv, WithinLimit

LEMMA LeaveInv == ASSUME IInv, NEW c \in Live, Leave(c) PROVE IInv'
BY ContextFacts, HangupEvolves, ContextStep DEF Leave

LEMMA AuthorizeInv ==
    ASSUME IInv, NEW c \in Live, NEW w \in Wallets, NEW n \in Names \union {NoName},
           Authorize(c, w, n)
    PROVE  IInv'
<1> DEFINE x == ctx[c]
           new == [x EXCEPT !.authorized = @ + 1, !.wallet = w, !.wants = n, !.reader = "name"]
<1>1. x \in Context /\ x.reader = "read" /\ x.authorized <= maxAuthorizePerConn
  BY ContextFacts DEF Authorize
<1>2. CASE /\ ctx' = [ctx EXCEPT ![c] = [Hangup(x) EXCEPT !.authorized = @ + 1, !.reader = "done"]]
           /\ UNCHANGED stray
  BY <1>1, <1>2, HangupEvolves, ContextStep DEF Authorize
<1>3. CASE ~TooMany(x.authorized + 1) /\ ctx' = [ctx EXCEPT ![c] = new] /\ Rekey(c, new)
  <2>1. Evolves(x, new)
    <3>1. x.authorized + 1 \in 0..(maxAuthorizePerConn + 1)
      BY <1>1, OneMore
    <3>2. new \in Context
      BY <1>1, <3>1 DEF Context
    <3>3. x.authorized + 1 <= maxAuthorizePerConn
      BY <1>3, <3>1, SessionsAssumption DEF TooMany
    <3> QED BY <1>1, <3>2, <3>3 DEF Evolves, Context
  <2> HIDE DEF new
  <2>2. ConnsInv'
    BY <1>3, <2>1, EvolveConns DEF Authorize, IInv
  <2>3. RowsInv'
    BY <1>3, <2>1, RekeyRows DEF Authorize
  <2> QED BY <2>2, <2>3 DEF IInv
<1> QED BY <1>2, <1>3 DEF Authorize

LEMMA SetNameInv == ASSUME IInv, NEW c \in Live, SetName(c) PROVE IInv'
<1> DEFINE new == [ctx[c] EXCEPT !.name = ctx[c].wants, !.wants = NoName, !.reader = "reply"]
<1>1. Evolves(ctx[c], new)
  BY ContextFacts DEF SetName, Evolves, Context
<1>2. ctx' = [ctx EXCEPT ![c] = new] /\ Rekey(c, new)
  BY DEF SetName
<1> HIDE DEF new
<1>3. ConnsInv'
  BY <1>1, <1>2, EvolveConns DEF SetName, IInv
<1>4. RowsInv'
  BY <1>1, <1>2, RekeyRows DEF SetName
<1> QED BY <1>3, <1>4 DEF IInv

LEMMA ReplyInv == ASSUME IInv, NEW c \in Live, Reply(c) PROVE IInv'
<1>1. CASE ctx' = [ctx EXCEPT ![c] = [Hangup(@) EXCEPT !.reader = "done"]]
  BY <1>1, ContextFacts, HangupEvolves, ContextStep DEF Reply
<1>2. CASE ctx' = [ctx EXCEPT ![c].reader = "stats"]
  <2>1. ctx' = [ctx EXCEPT ![c] = [ctx[c] EXCEPT !.reader = "stats"]]
    BY <1>2
  <2>2. /\ Evolves(ctx[c], [ctx[c] EXCEPT !.reader = "stats"])
        /\ Keeps(ctx[c], [ctx[c] EXCEPT !.reader = "stats"])
    BY ContextFacts DEF Reply, Evolves, Keeps, Context
  <2> QED BY <2>1, <2>2, ContextStep DEF Reply
<1> QED BY <1>1, <1>2 DEF Reply

LEMMA AuthorizeStatsInv == ASSUME IInv, NEW c \in Live, AuthorizeStats(c) PROVE IInv'
<1> DEFINE y == [ctx[c] EXCEPT !.reader = "read"]
<1>1. Evolves(ctx[c], y) /\ Keeps(ctx[c], y)
  BY ContextFacts DEF AuthorizeStats, Evolves, Keeps, Context
<1>2. ctx' = [ctx EXCEPT ![c] = y] /\ CreateStats(c, Saw(ctx[c]))
  BY DEF AuthorizeStats
<1>3. Saw(ctx[c]) \in Wallets \union {NoWallet}
  BY ContextFacts, SawType
<1> HIDE DEF y
<1>4. Key(y) = Key(ctx[c])
  BY <1>1, SameKey DEF Keeps
<1>5. ConnsInv'
  BY <1>1, <1>2, EvolveConns DEF AuthorizeStats, IInv
<1>6. RowsInv'
  BY <1>1, <1>2, <1>3, <1>4, CreateRows DEF AuthorizeStats
<1> QED BY <1>5, <1>6 DEF IInv

LEMMA SubmitInv == ASSUME IInv, NEW c \in Live, Submit(c) PROVE IInv'
<1>1. Evolves(ctx[c], ctx[c])
  BY ContextFacts DEF Evolves
<1>2. ctx' = [ctx EXCEPT ![c] = ctx[c]] /\ CreateStats(c, Saw(ctx[c]))
  BY ContextFacts DEF Submit, IInv, ConnsInv
<1>3. Saw(ctx[c]) \in Wallets \union {NoWallet}
  BY ContextFacts, SawType
<1>4. ConnsInv'
  BY <1>1, <1>2, EvolveConns DEF Submit, IInv
<1>5. RowsInv'
  BY <1>1, <1>2, <1>3, CreateRows DEF Submit
<1> QED BY <1>4, <1>5 DEF IInv

LEMMA NewBlockAvailableInv == ASSUME IInv, NewBlockAvailable PROVE IInv'
<1> DEFINE due == {c \in clients : ctx[c].disc = "open"}
<1>1. ctx' = [c \in Conns |-> IF c \in due THEN [ctx[c] EXCEPT !.started = TRUE] ELSE ctx[c]]
  BY DEF NewBlockAvailable
<1>2. UNCHANGED <<clientCounter, nextExtranonce, clients, stats, removing, stray>>
  BY DEF NewBlockAvailable
<1> HIDE DEF due
<1>3. Live' = Live /\ Live \subseteq Conns
  BY <1>2, LiveConns DEF Live, IInv
<1>4. \A c \in Conns :
         /\ ctx'[c] \in Context
         /\ ctx'[c].disc = ctx[c].disc /\ ctx'[c].extranonce = ctx[c].extranonce
         /\ ctx'[c].reader = ctx[c].reader /\ ctx'[c].authorized = ctx[c].authorized
         /\ Keeps(ctx[c], ctx'[c])
  <2> SUFFICES ASSUME NEW c \in Conns
               PROVE  /\ ctx'[c] \in Context
                      /\ ctx'[c].disc = ctx[c].disc /\ ctx'[c].extranonce = ctx[c].extranonce
                      /\ ctx'[c].reader = ctx[c].reader
                      /\ ctx'[c].authorized = ctx[c].authorized
                      /\ Keeps(ctx[c], ctx'[c])
    OBVIOUS
  <2>1. ctx[c] \in Context
    BY DEF IInv, ConnsInv
  <2>2. ctx'[c] = ctx[c] \/ ctx'[c] = [ctx[c] EXCEPT !.started = TRUE]
    BY <1>1
  <2> QED BY <2>1, <2>2 DEF Context, Keeps
<1>5. ctx' \in [Conns -> Context]
  <2>1. ctx' = [c \in Conns |-> ctx'[c]]
    BY <1>1
  <2> QED BY <1>4, <2>1
<1>6. \A c \in Live : Key(ctx'[c]) = Key(ctx[c])
  BY <1>3, <1>4, SameKey DEF Keeps
<1>7. WithinLimit' /\ \A c \in clients : ctx'[c].disc # "gone"
  BY <1>3, <1>4 DEF IInv, ConnsInv, WithinLimit
<1>8. Unregistered'
  <2>1. CASE removing = None
    BY <1>2, <2>1 DEF Unregistered
  <2>2. CASE removing # None
    <3>1. removing.conn \in Live
      BY <2>2 DEF IInv, ConnsInv
    <3> QED BY <1>2, <1>3, <1>4, <2>2, <3>1 DEF IInv, ConnsInv, Unregistered
  <2> QED BY <2>1, <2>2
<1>9. Round'
  <2>1. \A d \in 1..(clientCounter + 1) : Nonce(d)' = Nonce(d)
    <3> SUFFICES ASSUME NEW d \in 1..(clientCounter + 1), d # clientCounter + 1
                 PROVE  ctx'[d].extranonce = ctx[d].extranonce
      BY <1>2 DEF Nonce
    <3>1. d \in Live
      BY DEF Live, IInv, ConnsInv
    <3> QED BY <1>3, <1>4, <3>1
  <2> QED BY <1>2, <2>1 DEF IInv, ConnsInv, Round, Onward
<1>10. ConnsInv'
  BY <1>2, <1>3, <1>5, <1>7, <1>8, <1>9 DEF IInv, ConnsInv
<1>11. NoGhosts'
  BY <1>2, <1>3, <1>4, <1>6 DEF NoGhosts, IInv, RowsInv
<1> QED BY <1>2, <1>10, <1>11 DEF IInv, RowsInv

LEMMA FetchInv == ASSUME IInv, NEW c \in Live, Fetch(c) PROVE IInv'
BY ContextFacts, HangupEvolves, ContextStep DEF Fetch

LEMMA LookInv == ASSUME IInv, NEW c \in Live, Look(c) PROVE IInv'
<1>1. PICK seen : seen = ctx[c].saws \union {Saw(ctx[c])}
  OBVIOUS
<1>2. seen \in SUBSET (Wallets \union {NoWallet})
  BY <1>1, ContextFacts, SawType DEF Context
<1>3. PICK y : y = [ctx[c] EXCEPT !.saws = seen]
  OBVIOUS
<1>4. Evolves(ctx[c], y) /\ Keeps(ctx[c], y)
  BY <1>2, <1>3, ContextFacts DEF Evolves, Keeps, Context
<1>5. ctx' = [ctx EXCEPT ![c] = y]
  BY <1>1, <1>3 DEF Look
<1> QED BY <1>4, <1>5, ContextStep DEF Look

LEMMA TrackInv ==
    ASSUME IInv, NEW c \in Live, NEW saw \in ctx[c].saws, Track(c, saw) PROVE IInv'
<1>1. PICK y : y \in {ctx[c], Hangup(ctx[c])} /\ ctx' = [ctx EXCEPT ![c] = y]
  <2>1. ctx = [ctx EXCEPT ![c] = ctx[c]]
    BY ContextFacts DEF IInv, ConnsInv
  <2> QED BY <2>1 DEF Track
<1>2. Evolves(ctx[c], y) /\ Keeps(ctx[c], y)
  <2>1. Evolves(ctx[c], Hangup(ctx[c])) /\ Keeps(ctx[c], Hangup(ctx[c]))
    BY ContextFacts, HangupEvolves
  <2>2. Evolves(ctx[c], ctx[c]) /\ Keeps(ctx[c], ctx[c])
    BY ContextFacts DEF Evolves, Keeps
  <2> QED BY <1>1, <2>1, <2>2
<1>3. Key(y) = Key(ctx[c])
  BY <1>2, SameKey DEF Keeps
<1>4. saw \in Wallets \union {NoWallet}
  BY ContextFacts DEF Context
<1>5. ConnsInv'
  BY <1>1, <1>2, EvolveConns DEF Track, IInv
<1>6. RowsInv'
  BY <1>1, <1>2, <1>3, <1>4, CreateRows DEF Track
<1> QED BY <1>5, <1>6 DEF IInv

LEMMA TakeDisconnectInv == ASSUME IInv, NEW c \in Live, TakeDisconnect(c) PROVE IInv'
<1>1. Live' = Live
  BY DEF TakeDisconnect, Live
<1>2. /\ removing' = [conn |-> c, saw |-> Saw(ctx[c])]
      /\ removing' \in [conn : Live, saw : Wallets \union {NoWallet}]
      /\ removing'.conn = c
  BY ContextFacts, SawType DEF TakeDisconnect
<1>3. Unregistered'
  BY <1>2 DEF Unregistered, TakeDisconnect
<1>4. Round' /\ WithinLimit'
  BY DEF IInv, ConnsInv, Round, Nonce, Onward, WithinLimit, TakeDisconnect
<1>5. ConnsInv'
  BY <1>1, <1>2, <1>3, <1>4 DEF IInv, ConnsInv, TakeDisconnect
<1> QED BY <1>1, <1>5 DEF IInv, RowsInv, NoGhosts, TakeDisconnect

LEMMA RemoveStatsInv == ASSUME IInv, RemoveStats PROVE IInv'
<1>1. PICK c : c = removing.conn
  OBVIOUS
<1>2. /\ removing # None /\ removing' = None
      /\ c \in Live /\ c \notin clients
      /\ removing.saw \in Wallets \union {NoWallet}
  BY <1>1 DEF RemoveStats, IInv, ConnsInv, Unregistered
<1>3. PICK gone : gone = Removed(ctx[c], removing.saw)
  OBVIOUS
<1>4. /\ ctx' = [ctx EXCEPT ![c].disc = "gone"]
      /\ stats' = stats \ gone
      /\ stray' = (stray \ gone)
                    \union (IF RowKey(ctx[c], removing.saw) # Key(ctx[c])
                            THEN (stats \ gone) \intersect {Key(ctx[c])} ELSE {})
      /\ UNCHANGED <<clientCounter, nextExtranonce, clients>>
  BY <1>1, <1>3 DEF RemoveStats
<1>5. PICK y : y = [ctx[c] EXCEPT !.disc = "gone"]
  OBVIOUS
<1>6. /\ y \in Context /\ y.disc = "gone" /\ y.extranonce = ctx[c].extranonce
      /\ y.reader = ctx[c].reader /\ y.authorized = ctx[c].authorized
  BY <1>2, <1>5, ContextFacts DEF Context
<1>7. ctx' = [ctx EXCEPT ![c] = y] /\ Live' = Live /\ Live \subseteq Conns
  BY <1>4, <1>5, LiveConns DEF Live, IInv
<1>8. /\ ctx' \in [Conns -> Context] /\ ctx'[c] = y
      /\ \A d \in Conns : d # c => ctx'[d] = ctx[d]
  BY <1>2, <1>6, <1>7 DEF IInv, ConnsInv
<1>9. /\ \A d \in clients' : ctx'[d].disc # "gone"
      /\ WithinLimit' /\ Unregistered'
  BY <1>2, <1>4, <1>6, <1>7, <1>8 DEF IInv, ConnsInv, WithinLimit, Unregistered
<1>10. Round'
  <2>1. \A d \in 1..(clientCounter + 1) : Nonce(d)' = Nonce(d)
    <3> SUFFICES ASSUME NEW d \in 1..(clientCounter + 1), d # clientCounter + 1
                 PROVE  ctx'[d].extranonce = ctx[d].extranonce
      BY <1>4 DEF Nonce
    <3>1. d \in Live
      BY DEF Live, IInv, ConnsInv
    <3> QED BY <1>6, <1>7, <1>8, <3>1
  <2> QED BY <1>4, <2>1 DEF IInv, ConnsInv, Round, Onward
<1>11. ConnsInv'
  BY <1>2, <1>4, <1>7, <1>8, <1>9, <1>10 DEF IInv, ConnsInv
<1>12. stats' \in SUBSET Keys /\ stray' \in SUBSET Keys
  BY <1>4 DEF IInv, RowsInv
<1>13. NoGhosts'
  <2> SUFFICES ASSUME NEW k \in stats' \ stray'
               PROVE  \E d \in Live : ctx'[d].disc # "gone" /\ Key(ctx'[d]) = k
    BY <1>7 DEF NoGhosts
  <2>1. k \in stats /\ k \notin gone /\ k \notin stray
    BY <1>4
  <2>2. PICK d \in Live : ctx[d].disc # "gone" /\ Key(ctx[d]) = k
    BY <2>1 DEF NoGhosts, IInv, RowsInv
  <2>3. d # c
    <3> SUFFICES ASSUME d = c PROVE FALSE
      OBVIOUS
    <3>1. CASE RowKey(ctx[c], removing.saw) = Key(ctx[c])
      BY <1>3, <2>1, <2>2, <3>1 DEF Removed
    <3>2. CASE RowKey(ctx[c], removing.saw) # Key(ctx[c])
      BY <1>4, <2>1, <2>2, <3>2
    <3> QED BY <3>1, <3>2
  <2> QED BY <1>7, <1>8, <2>2, <2>3
<1> QED BY <1>11, <1>12, <1>13 DEF IInv, RowsInv

LEMMA NextInv == IInv /\ [Next]_vars => IInv'
<1> SUFFICES ASSUME IInv, [Next]_vars PROVE IInv'
  OBVIOUS
<1>1. CASE UNCHANGED vars
  BY <1>1 DEF vars, IInv, ConnsInv, RowsInv, NoGhosts, Unregistered, WithinLimit, Round, Nonce,
              Onward, Live
<1>2. CASE Next
  BY <1>2, OnConnectInv, NewBlockAvailableInv, RemoveStatsInv, LeaveInv, AuthorizeInv, SetNameInv,
     ReplyInv, AuthorizeStatsInv, SubmitInv, FetchInv, LookInv, TrackInv, TakeDisconnectInv
     DEF Next
<1> QED BY <1>1, <1>2

-----------------------------------------------------------------------------
(* The state keeps its shape; a registered connection is not gone, and the    *)
(* one that OnDisconnect works on has hung up.                                *)
THEOREM TypeCorrect == Spec => []TypeOK
<1>1. IInv => TypeOK
  BY DEF IInv, ConnsInv, RowsInv, Unregistered, TypeOK
<1> QED BY <1>1, InitInv, NextInv, PTL DEF Spec

(* Between two connected miners with the same extranonce at least             *)
(* maxExtranonce others have connected (OnConnect).                           *)
THEOREM ExtranonceApartAlways == Spec => []ExtranonceApart
<1>1. IInv => ExtranonceApart
  <2> SUFFICES ASSUME IInv, NEW c \in clients, NEW d \in clients, c < d,
                      ctx[c].extranonce = ctx[d].extranonce, d - c <= maxExtranonce
               PROVE  FALSE
    BY SessionsAssumption DEF ExtranonceApart, IInv, ConnsInv, Live
  <2>1. c \in Live /\ d \in Live /\ c \in Conns
    BY LiveConns DEF IInv, ConnsInv
  <2>2. /\ c \in 1..(clientCounter + 1) /\ d \in 1..(clientCounter + 1)
        /\ c # clientCounter + 1 /\ d # clientCounter + 1
    BY <2>1 DEF Live, IInv, ConnsInv
  <2>3. ctx[d].extranonce = Onward(ctx[c].extranonce, d - c)
    BY <2>2 DEF IInv, ConnsInv, Round, Nonce
  <2>4. ctx[c].extranonce \in 0..maxExtranonce
    BY <2>1 DEF IInv, ConnsInv, Context
  <2> QED BY <2>2, <2>3, <2>4, SessionsAssumption DEF Onward
<1> QED BY <1>1, InitInv, NextInv, PTL DEF Spec

(* A row of sh.stats outlives its connection only as a stray one: by a        *)
(* change of the worker's name, or by a goroutine that came after removeStats. *)
THEOREM NoGhostsAlways == Spec => []NoGhosts
<1>1. IInv => NoGhosts
  BY DEF IInv, RowsInv
<1> QED BY <1>1, InitInv, NextInv, PTL DEF Spec

(* No step takes a connection back from gone: Disconnect does nothing to one   *)
(* that is not open, and the rest of a goroutine leaves disc alone.           *)
LEMMA GoneStep ==
    ASSUME IInv, [Next]_vars, NEW c \in Live, ctx[c].disc = "gone"
    PROVE  ctx'[c].disc = "gone"
<1>1. c \in Conns /\ \A d \in Live : d \in Conns /\ ctx[d] \in Context
  BY ContextFacts
<1>2. ctx \in [Conns -> Context] /\ Hangup(ctx[c]) = ctx[c]
  BY DEF IInv, ConnsInv, Hangup
<1>3. CASE UNCHANGED vars
  BY <1>3 DEF vars
<1>4. ASSUME NEW a \in Addrs, OnConnect(a) PROVE ctx'[c].disc = "gone"
  <2>1. c # clientCounter + 1
    BY DEF IInv, ConnsInv, Live
  <2> QED BY <1>1, <1>2, <1>4, <2>1 DEF OnConnect
<1>5. CASE NewBlockAvailable
  BY <1>1, <1>2, <1>5 DEF NewBlockAvailable
<1>6. CASE RemoveStats
  <2>1. removing.conn \in Conns
    BY <1>1, <1>6 DEF RemoveStats, IInv, ConnsInv
  <2> QED BY <1>1, <1>2, <1>6, <2>1 DEF RemoveStats, Context
<1>7. ASSUME NEW d \in Live, NEW y, ctx' = [ctx EXCEPT ![d] = y],
             d = c => y.disc = "gone"
      PROVE  ctx'[c].disc = "gone"
  BY <1>1, <1>2, <1>7
<1>8. ASSUME NEW d \in Live,
             \/ Leave(d)
             \/ \E w \in Wallets, n \in Names \union {NoName} : Authorize(d, w, n)
             \/ SetName(d) \/ Reply(d) \/ AuthorizeStats(d)
             \/ Fetch(d) \/ Look(d)
             \/ \E saw \in ctx[d].saws : Track(d, saw)
      PROVE  ctx'[c].disc = "gone"
  <2>1. PICK x \in Context : x = ctx[d]
    BY <1>1
  <2>2. d = c => x.disc = "gone" /\ Hangup(x) = x
    BY <1>2, <2>1
  <2>3. CASE Leave(d) \/ Reply(d)
    BY <1>7, <2>1, <2>2, <2>3 DEF Leave, Reply, Context
  <2>4. CASE \E w \in Wallets, n \in Names \union {NoName} : Authorize(d, w, n)
    BY <1>7, <2>1, <2>2, <2>4 DEF Authorize, Context
  <2>5. CASE SetName(d) \/ AuthorizeStats(d)
    BY <1>7, <2>1, <2>2, <2>5 DEF SetName, AuthorizeStats, Context
  <2>6. CASE Fetch(d)
    BY <1>7, <2>1, <2>2, <2>6 DEF Fetch
  <2>7. CASE Look(d)
    BY <1>7, <2>1, <2>2, <2>7 DEF Look, Context
  <2>8. CASE \E saw \in ctx[d].saws : Track(d, saw)
    BY <1>7, <2>1, <2>2, <2>8 DEF Track
  <2> QED BY <1>8, <2>3, <2>4, <2>5, <2>6, <2>7, <2>8
<1>9. ASSUME NEW d \in Live, Submit(d) \/ TakeDisconnect(d) PROVE ctx'[c].disc = "gone"
  BY <1>9 DEF Submit, TakeDisconnect
<1>10. CASE Next
  BY <1>4, <1>5, <1>6, <1>8, <1>9, <1>10 DEF Next
<1> QED BY <1>3, <1>10

(* OnDisconnect runs once for each connection (disconnectListener). *)
THEOREM GoneForGoodAlways == Spec => GoneForGood
<1>1. IInv /\ [Next]_vars => [\A c \in Live : ctx[c].disc = "gone" => ctx'[c].disc = "gone"]_vars
  BY GoneStep
<1> QED BY <1>1, InitInv, NextInv, PTL DEF Spec, GoneForGood

=============================================================================
