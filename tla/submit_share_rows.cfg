SPECIFICATION Spec
CONSTANTS
    j1 = j1
    j2 = j2
    j3 = j3
    n1 = n1
    n2 = n2
    NoJob = NoJob
    NoHash = NoHash
    Free = Free
    Hash = {}
    HashOf <- MCHashOf
    Hits <- MCHits
    Score <- MCScore
    workWindow = 2
    maxjobs = 2
    Clients = {1}
    Job = {j1}
    Nonces = {n1, n2}
    MaxSubmits = 1
    Faults = {}
CHECK_DEADLOCK FALSE
INVARIANT RowsAreBlocks
