SPECIFICATION Spec
CONSTANTS
    NoValue = NoValue
    alice = alice
    bob = bob
    carol = carol
    asset = asset
    issueA = issueA
    issueB = issueB
    transferA = transferA
    transferB = transferB
    shareA = shareA
    shareB = shareB
    grantAB = grantAB
    grantRest = grantRest
    grantBA = grantBA
    grantBC = grantBC
    grantBCToo = grantBCToo
    grantB = grantB
    swapAB = swapAB
    blockTransfer = blockTransfer
    blockReturn = blockReturn
    d1 = d1
    d2 = d2
    d3 = d3
    digital = digital
    Tx = {asset, issueA, shareA, grantAB, grantRest, grantBA}
    TxData <- MCTxData
    Digest = {d1}
    BlockData <- MCBlockData
    Version = 2
    BlockValidationCounts = 2
    Wrap = 64
    MaxHeight = 5
    MaxTxs = 2
    MaxMoves = 2
    MaxCount = 9
INVARIANT
    ShareConservation
CHECK_DEADLOCK FALSE
