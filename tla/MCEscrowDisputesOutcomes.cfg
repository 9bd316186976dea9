\* Outcomes: two escrows and two disputes settled in any order.
SPECIFICATION SystemSpec
CONSTANTS
    a1 = a1
    a2 = a2
    a3 = a3
    o1 = o1
    o2 = o2
    Court = court
    Accounts = {a1, a2, a3}
    DisputeContracts = {court}
    Nobody = Nobody
    Verified = {a1, a2, a3}
    MaxTime = 2
    MaxEscrows = 2
    MaxBatch = 1
    MaxPaidIn = 160
    MinAmount = 100
    MaxAmount = 1000
    MaxFeeBps = 1000
    MaxHoldSecs = 0
    ExpirySecs = 1
    DefaultFeeBps = 1000
    DefaultHoldSecs = 0
    DefaultRetention = 1
    Offers <- OneOffer
    Amounts = {}
    Fees = {}
    Periods = {}
    Takings = {}
    Settings = {"court", "kyc"}
    CaseIds = {1}
    Officials = {o1, o2}
    Admin = o1
    Arbitrator = o1
    SuperArbitrator = o2
    MaxDisputes = 2
    DeadlineSecs = 0
    AppealSecs = 1
    MaxArbitrators = 2
    DefaultQuorumBps = 6001
    DefaultFilingFee = 2
    MaxFilingFee = 500000000
    Claims = {}
    Backings <- AnyBacking
    Witnesses = {}
    FilingFees = {}
    Quorums = {}
    Appointments = {"registered"}
INVARIANTS
    ContractsAgree
    ConfirmationStands
    StatusTellsOutcome
CHECK_DEADLOCK FALSE
