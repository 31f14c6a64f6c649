SPECIFICATION Spec
CONSTANTS
    b1 = b1
    b2 = b2
    b3 = b3
    p1 = p1
    a1 = a1
    a2 = a2
    a3 = a3
    w1 = w1
    w2 = w2
    NoHash = NoHash
    Blocks = {b1, b2}
    Known = {b1, b2}
    Wallets = {w1, w2}
    Accepting = {a1, a2, a3}
    Payee <- MCPayee
    Blues <- MCBlues
    Reds <- MCReds
    Paid <- MCPaid
    Forks <- MCChain
    Workers = {1, 2}
    MaxAttempts = 2
    MaxCrashes = 0
    WebUI = TRUE
    NodeErrors = FALSE
    DbErrors = FALSE
    MayReorg = FALSE
CHECK_DEADLOCK FALSE
INVARIANT BookedOnce
