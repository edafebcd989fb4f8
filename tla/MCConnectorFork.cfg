SPECIFICATION FairSpec
CONSTANTS
    Peer = {p1}
    Block <- LargeTree
    Genesis <- MCGenesis
    Parent <- MCParent
    Number <- MCNumber
    None <- MCNone
    FastSync = {FALSE}
    minimumClients = 1
    samplingLimit = 1
    forkProtection = 2
    fetchBlocksPerCycle = 3
    fastSyncFetchBlocksPerCycle = 1
    fastSyncPivotBlocks = 1
    fastSyncSkipPerBlocks = 1
    Tips <- LargeTips
    Broadcast <- BothBranches
    MaxFaults = 1
PROPERTY
    RefusesOnlyDeeperForks
