\* Two storeIssues calls at a time, a free and a paid bundle that share an
\* issue, and a transfer of that issue.
SPECIFICATION Spec
CONSTANTS
    None = None
    old = old
    issue1 = issue1
    issue2 = issue2
    transfer1 = transfer1
    transfer2 = transfer2
    transfer3 = transfer3
    transfer4 = transfer4
    grant = grant
    free = free
    paid = paid
    Record = {old}
    Single = {transfer4}
    Issue = {issue1, issue2}
    Bundle = {free, paid}
    Free = {free}
    Members <- MCMembers
    Link <- MCLink
    Caller = {c1, c2}
    autoVerify = FALSE
    maximumPendingFreeIssues = 2
    maximumPendingPaidIssues = 4
    maximumPendingTransactions = 2
    MaxTxs = 2
    MaxOrphans = 1
INVARIANTS
    TypeOK
    PendingWithinLimits
    PaidNeverWaits
