\* Money: two escrows, deposits, partial releases, every way to settle.
SPECIFICATION EscrowSpec
CONSTANTS
    a1 = a1
    a2 = a2
    a3 = a3
    Accounts = {a1, a2, a3}
    DisputeContracts = {court}
    Nobody = Nobody
    Verified = {a1, a2, a3}
    MaxTime = 3
    MaxEscrows = 2
    MaxBatch = 2
    MaxPaidIn = 150
    MinAmount = 100
    MaxAmount = 1000
    MaxFeeBps = 1000
    MaxHoldSecs = 0
    ExpirySecs = 1
    DefaultFeeBps = 1000
    DefaultHoldSecs = 0
    DefaultRetention = 1
    Offers <- OneOffer
    Settings = {"court"}
    Amounts = {50}
    Fees = {1000}
    Periods = {1}
    Takings = {5}
    CaseIds = {1}
INVARIANTS
    EscrowTypeOK
    Solvent
    FlowsBalance
    PendingIsFunded
PROPERTY PayoutWindows
CHECK_DEADLOCK FALSE
