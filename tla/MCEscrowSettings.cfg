\* Settings: fees, hold and retention periods and pausing change at any moment.
SPECIFICATION EscrowSpec
CONSTANTS
    a1 = a1
    a2 = a2
    a3 = a3
    Accounts = {a1, a2, a3}
    DisputeContracts = {court}
    Nobody = Nobody
    Verified = {a1, a3}
    MaxTime = 3
    MaxEscrows = 1
    MaxBatch = 1
    MaxPaidIn = 260
    MinAmount = 100
    MaxAmount = 1000
    MaxFeeBps = 1000
    MaxHoldSecs = 1
    ExpirySecs = 2
    DefaultFeeBps = 250
    DefaultHoldSecs = 1
    DefaultRetention = 1
    Offers <- OneOffer
    Settings = {"feeBps", "holdSecs", "retention", "paused"}
    Amounts = {39, 60}
    Fees = {100, 1000}
    Periods = {1, 2}
    Takings = {2}
    CaseIds = {1}
INVARIANTS
    FeeNeverAboveAgreed
    CancelWindow
    ExitsOpen
CHECK_DEADLOCK FALSE
