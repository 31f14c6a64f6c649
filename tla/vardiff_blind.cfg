SPECIFICATION Spec
CONSTANTS
    NoDiff = NoDiff
    windows <- MCwindows
    tolerances <- MCtolerances
    Pushers = {1}
    minShareDiff = 100
    NetDiffs = {7, 100}
    expectedShareRate = 2
    MaxMinutes = 2
    MaxFound = 2
PROPERTY LoweredOnlyIfSlow
