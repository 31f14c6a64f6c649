SPECIFICATION Spec
CONSTANTS
    a1 = a1
    w1 = w1
    n1 = n1
    NoWallet = NoWallet
    NoName = NoName
    None = None
    Addrs = {a1}
    Wallets = {w1}
    Names = {n1}
    maxAuthorizePerConn = 2
    maxExtranonce = 1
    MaxConns = 2
    MaxAuthorizes = 3
CHECK_DEADLOCK FALSE
INVARIANTS
    TypeOK
    ExtranonceApart
    NoGhosts
PROPERTIES
    GoneForGood
    EveryDisconnectHandled
