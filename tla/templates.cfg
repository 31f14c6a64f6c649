SPECIFICATION TSpec
CONSTANTS
    w1 = w1
    Bridge = Bridge
    None = None
    Free = Free
    Wallets = {w1}
    FeeAddress = Bridge
    Calls = {1, 2}
    TTL = 1
    MaxTip = 2
    Miner = w1
    Configs <- MCConfigs
    MineWhenNotSynced = TRUE
    MaxNotes = 2
PROPERTIES
    MinersCatchUp
    NotificationsTaken
