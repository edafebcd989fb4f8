\* Transfers and a grant, their payments, and blocks of up to two of them.
SPECIFICATION Spec
CONSTANTS
    None = None
    old = old
    issue1 = issue1
    issue2 = issue2
    transfer1 = transfer1
    transfer2 = transfer2
    transfer3 = transfer3
    transfer4 = transfer4
    grant = grant
    free = free
    paid = paid
    Record = {old}
    Single = {transfer1, transfer2, transfer3, grant}
    Issue = {}
    Bundle = {}
    Free = {}
    Members <- MCMembers
    Link <- MCLink
    Caller = {}
    autoVerify = FALSE
    maximumPendingFreeIssues = 1
    maximumPendingPaidIssues = 1
    maximumPendingTransactions = 2
    MaxTxs = 2
    MaxOrphans = 1
INVARIANTS
    NoDoubleTransfer
    LinksExact
    SinglesIndexed
    PoolValidAfterRescan
PROPERTY
    VerifiedStay
