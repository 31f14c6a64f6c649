SPECIFICATION Spec
CONSTANTS
    j1 = j1
    j2 = j2
    j3 = j3
    h1 = h1
    NoJob = NoJob
    NoHash = NoHash
    maxjobs = 2
    MaxId = 4
    Job = {j1, j2, j3}
    Hash = {h1}
    HashOf <- MCHashOf
    Pushers = {1, 2}
INVARIANTS
    TypeOK
    FeeJobsBacked
    NewestJobsReachable
