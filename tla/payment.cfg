SPECIFICATION MCSpec
CONSTANTS
    s1 = s1
    s2 = s2
    m1 = m1
    m2 = m2
    Sessions <- MCSessions
    Members <- MCMembers
    Policies <- ThreePolicies
    Requests = {12}
    Prices = {1, 3}
    Receipts <- MCReceipts
    GiB = 2
    Validity = 1
    ClaimWindow = 1
    ReceiptDelay = 1
    FeePerUnit = 1
    FeeBps = 1
    TreasuryBps = 1
    BpsDenominator = 2
    Expiry = 4
    OwnerFunds = 14
    NodeFunds = 10
    MaxTime = 3
    MaxRevision = 1
SYMMETRY MCSymmetry
INVARIANT PaymentTypeOK Conservation AuthorizationAccounted PaidForTraffic
PROPERTY MemberWithinLimit KeepsPromise SettledPrefixStands
CHECK_DEADLOCK FALSE
