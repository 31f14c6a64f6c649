SPECIFICATION Spec
CONSTANTS
    b1 = b1
    b2 = b2
    b3 = b3
    p1 = p1
    a1 = a1
    a2 = a2
    a3 = a3
    w1 = w1
    w2 = w2
    NoHash = NoHash
    Blocks = {b1, b2, b3}
    Known = {b1, b2, b3}
    Wallets = {w1, w2}
    Accepting = {a1, a2, a3}
    Payee <- MCPayee
    Blues <- MCBlues
    Reds <- MCReds
    Paid <- MCPaid
    Forks <- MCForks
    Workers = {1, 2}
    MaxAttempts = 2
    MaxCrashes = 1
    WebUI = TRUE
    NodeErrors = TRUE
    DbErrors = TRUE
    MayReorg = TRUE
CHECK_DEADLOCK FALSE
INVARIANTS
    TypeOK
    OneFetcher
    RewardIsReal
PROPERTY SettledIsFinal
