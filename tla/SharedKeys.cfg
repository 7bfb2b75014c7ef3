SPECIFICATION Spec
CONSTANTS
    None = None
    MAX_POWER = 4
    AllocBlocks = 3
    AllocRecords = 3
    LeaderKeys <- MCLeaderKeys
    FollowerKeys <- MCFollowerKeys
    ServerKeys <- MCServerKeys
    Coins <- MCCoins
    Faults <- MCFaults
    Texts <- MCTexts
    MaxRecords = 2
INVARIANTS
    PremasterAgrees
    RecordsAreTls
    
CHECK_DEADLOCK FALSE
