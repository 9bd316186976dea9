\* Money and rulings: two disputes, the filing fee changed in between.
SPECIFICATION DisputeSpec
CONSTANTS
    a1 = a1
    a2 = a2
    a3 = a3
    o1 = o1
    o2 = o2
    o3 = o3
    Accounts = {a1, a2, a3}
    Officials = {o1, o2, o3}
    Nobody = Nobody
    Admin = o1
    Arbitrator = o2
    SuperArbitrator = o3
    MaxTime = 2
    MaxDisputes = 2
    DeadlineSecs = 0
    AppealSecs = 1
    MaxArbitrators = 3
    DefaultQuorumBps = 6001
    DefaultFilingFee = 2
    MaxFilingFee = 500000000
    Claims <- OneClaim
    Backings <- OneBacking
    Witnesses = {}
    FilingFees <- FeeChoices
    Quorums = {}
    Appointments = {"filingFee", "registered"}
INVARIANTS
    DisputesFunded
    RulingCarriedOut
PROPERTY AppealWindowKept
CHECK_DEADLOCK FALSE
