\* Payments: two sends of one wallet, one retry of a submission, and one
\* transaction of the account from elsewhere.  Requests: two, and one failing
\* store.  Tokens: two tabs, one trouble.  An agent escrow: one, with two
\* requests served at once; the insurance rates are scaled up so that small
\* amounts have a share.
SPECIFICATION Spec
CONSTANTS
    s1 = s1
    s2 = s2
    w1 = w1
    Sends = {s1, s2}
    Wallets = {w1}
    sender <- OneWallet
    MAX_SEQ_RETRIES = 2
    PaymentRetries = 1
    BalanceRetries = 0
    HorizonLag = 1
    MaxOutside = 1
    MaxRequests = 2
    QuickHandlers = FALSE
    MaxSlips = 1
    Tabs = {"t1", "t2"}
    MaxTokens = 3
    MaxTroubles = 1
    PayoutAgents = {"g1", "g2"}
    NoAgent = "none"
    MaxPayouts = 2
    PayoutSums = {40}
    PayoutFees = {5000}
    PartSums = {15, 25}
    ShareRates = {10000}
    MaxShareBps = 10000
    DefaultShareBps = 5000
    FeeTakings = {7}
    Callers = {"u1", "u2"}
    BackendBps = 5000
INVARIANTS
    PaidOnce
    ResultIsTrue
    QueueKept
    AnswersKept
    OneSuccessor
    EndsRightly
    RowTellsOutcome
PROPERTY CallsSettle
CHECK_DEADLOCK FALSE
