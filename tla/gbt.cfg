SPECIFICATION Spec
CONSTANTS
    w1 = w1
    w2 = w2
    Bridge = Bridge
    None = None
    Free = Free
    Wallets = {w1, w2}
    FeeAddress = Bridge
    Calls = {1, 2}
    TTL = 1
    MaxTip = 1
INVARIANTS
    TypeOK
    PaysSelected
    SharedNamesNoWorker
PROPERTIES
    ExpiredGoes
    CallsReturn
