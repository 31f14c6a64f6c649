SPECIFICATION Spec
CONSTANTS
    NoDiff = NoDiff
    windows <- MCwindows
    tolerances <- MCtolerances
    Pushers = {1, 2}
    minShareDiff = 10
    NetDiffs = {7, 10}
    expectedShareRate = 2
    MaxMinutes = 1
    MaxFound = 1
INVARIANTS
    TypeOK
    ToldIsChecked
    JudgeFollowsRate
PROPERTY TrackerRestarts
