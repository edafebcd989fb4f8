SPECIFICATION Spec
CONSTANTS
    Peer = {p1}
    Block <- SmallTree
    Genesis <- MCGenesis
    Parent <- MCParent
    Number <- MCNumber
    None <- MCNone
    FastSync = {TRUE}
    minimumClients = 1
    samplingLimit = 1
    forkProtection = 2
    fetchBlocksPerCycle = 3
    fastSyncFetchBlocksPerCycle = 2
    fastSyncPivotBlocks = 1
    fastSyncSkipPerBlocks = 2
    Tips <- SmallTips
    Broadcast <- SmallTree
    MaxFaults = 1
INVARIANT
    StoreReturnsError
CHECK_DEADLOCK FALSE
