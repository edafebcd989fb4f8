SPECIFICATION Spec
CONSTANTS
    NoValue = NoValue
    alice = alice
    bob = bob
    carol = carol
    asset = asset
    issueA = issueA
    issueB = issueB
    transferA = transferA
    transferB = transferB
    shareA = shareA
    shareB = shareB
    grantAB = grantAB
    grantRest = grantRest
    grantBA = grantBA
    grantBC = grantBC
    grantBCToo = grantBCToo
    grantB = grantB
    swapAB = swapAB
    blockTransfer = blockTransfer
    blockReturn = blockReturn
    d1 = d1
    d2 = d2
    d3 = d3
    digital = digital
    Tx = {asset, issueA, issueB, shareA, shareB, grantAB, grantBA, grantB, swapAB}
    TxData <- MCTxData
    Digest = {d3}
    BlockData <- MCBlockData
    Version = 2
    BlockValidationCounts = 2
    Wrap = 64
    MaxHeight = 5
    MaxTxs = 2
    MaxMoves = 1
    MaxCount = 5
INVARIANTS
    BalancesMatchChain
    NeverPanics
CHECK_DEADLOCK FALSE
