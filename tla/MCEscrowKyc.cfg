\* KYC: only a1 and a2 are verified, a3 is not.
SPECIFICATION EscrowSpec
CONSTANTS
    a1 = a1
    a2 = a2
    a3 = a3
    Accounts = {a1, a2, a3}
    DisputeContracts = {court}
    Nobody = Nobody
    Verified = {a1, a2}
    MaxTime = 1
    MaxEscrows = 2
    MaxBatch = 2
    MaxPaidIn = 160
    MinAmount = 100
    MaxAmount = 1000
    MaxFeeBps = 1000
    MaxHoldSecs = 0
    ExpirySecs = 1
    DefaultFeeBps = 250
    DefaultHoldSecs = 0
    DefaultRetention = 1
    Offers <- CrossedOffers
    Settings = {"kyc"}
    Amounts = {60}
    Fees = {1000}
    Periods = {1}
    Takings = {6}
    CaseIds = {1}
PROPERTY KycOnCreation
CHECK_DEADLOCK FALSE
