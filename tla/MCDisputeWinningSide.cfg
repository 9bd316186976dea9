\* The quorum is lowered while a dispute is voted on.
SPECIFICATION DisputeSpec
CONSTANTS
    a1 = a1
    a2 = a2
    a3 = a3
    o1 = o1
    o2 = o2
    o3 = o3
    Accounts = {a1, a2, a3}
    Officials = {o1, o2, o3}
    Nobody = Nobody
    Admin = o1
    Arbitrator = o2
    SuperArbitrator = o3
    MaxTime = 0
    MaxDisputes = 1
    DeadlineSecs = 1
    AppealSecs = 1
    MaxArbitrators = 3
    DefaultQuorumBps = 6001
    DefaultFilingFee = 2
    MaxFilingFee = 500000000
    Claims <- OneClaim
    Backings = {}
    Witnesses = {}
    FilingFees = {}
    Quorums = {3000}
    Appointments = {"panel", "quorum"}
PROPERTY WinningSidePaid
CHECK_DEADLOCK FALSE
