SPECIFICATION MCSpec
CONSTANTS
    None = None
    Outcomes = {"blue"}
    PageSize = 2
    Requests = {1, 2}
    MaxRows = 3
    MaxFaults = 1
    Window = 4
    Hour = 2
    Diffs = {1, 2}
    MaxShares = 3
    MaxMinute = 6
    MaxBlocks = 4
    Limits = {1, 4}
    MaxFailing = 1
    Rigs = {rig1, rig2}
    NoRig = NoRig
    Atoms = 3
INVARIANTS
    NeverPastTheEnd
    AtomsWithinBlue
    RollingIsWindow
    
    WaysAgree
    SplitExact
PROPERTIES
    EventuallyUpToDate
