\* One grant that is resubmitted while the block that holds it is stored.
SPECIFICATION Spec
CONSTANTS
    None = None
    old = old
    issue1 = issue1
    issue2 = issue2
    transfer1 = transfer1
    transfer2 = transfer2
    transfer3 = transfer3
    transfer4 = transfer4
    grant = grant
    free = free
    paid = paid
    Record = {old}
    Single = {grant}
    Issue = {}
    Bundle = {}
    Free = {}
    Members <- MCMembers
    Link <- MCLink
    Caller = {}
    autoVerify = FALSE
    maximumPendingFreeIssues = 1
    maximumPendingPaidIssues = 1
    maximumPendingTransactions = 1
    MaxTxs = 1
    MaxOrphans = 1
INVARIANTS
    ConfirmedLeavesPool
