SPECIFICATION Spec
CONSTANTS
    NoValue = NoValue
    alice = alice
    bob = bob
    carol = carol
    asset = asset
    issueA = issueA
    issueB = issueB
    transferA = transferA
    transferB = transferB
    shareA = shareA
    shareB = shareB
    grantAB = grantAB
    grantRest = grantRest
    grantBA = grantBA
    grantBC = grantBC
    grantBCToo = grantBCToo
    grantB = grantB
    swapAB = swapAB
    blockTransfer = blockTransfer
    blockReturn = blockReturn
    d1 = d1
    d2 = d2
    d3 = d3
    digital = digital
    Tx = {asset, issueA, shareA, grantAB, grantRest, grantBC, grantBCToo}
    TxData <- MCTxData
    Digest = {d3}
    BlockData <- MCBlockData
    Version = 2
    BlockValidationCounts = 2
    Wrap = 64
    MaxHeight = 5
    MaxTxs = 3
    MaxMoves = 3
    MaxCount = 9
INVARIANT
    RecipientHasBalance
CHECK_DEADLOCK FALSE
