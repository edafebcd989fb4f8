SPECIFICATION FairSpec
CONSTANTS
    Peer = {p1, p2}
    Block <- LargeTree
    Genesis <- MCGenesis
    Parent <- MCParent
    Number <- MCNumber
    None <- MCNone
    FastSync = {TRUE, FALSE}
    minimumClients = 2
    samplingLimit = 1
    forkProtection = 2
    fetchBlocksPerCycle = 3
    fastSyncFetchBlocksPerCycle = 1
    fastSyncPivotBlocks = 1
    fastSyncSkipPerBlocks = 1
    Tips <- LargeTips
    Broadcast <- BothBranches
    MaxFaults = 1
INVARIANTS
    TypeOK
    ChainLinked
    FetchInSequence
    RebuiltCaughtUp
PROPERTIES
    PanicsOnlyInFastSync
    ForkProtected
    CatchesUp
CHECK_DEADLOCK FALSE
