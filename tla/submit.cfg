SPECIFICATION Spec
CONSTANTS
    j1 = j1
    j2 = j2
    j3 = j3
    n1 = n1
    n2 = n2
    NoJob = NoJob
    NoHash = NoHash
    Free = Free
    Hash = {}
    HashOf <- MCHashOf
    Hits <- MCHits
    Score <- MCScore
    workWindow = 2
    maxjobs = 1
    Clients = {1, 2}
    Job = {j1, j3}
    Nonces = {n1}
    MaxSubmits = 3
    Faults = {"refused", "invalidpow", "lost", "database"}
CHECK_DEADLOCK FALSE
INVARIANTS
    TypeOK
    CreditedOnce
    NoBlockForgotten
    TotalsAgree
PROPERTIES
    EverySubmissionAnswered
