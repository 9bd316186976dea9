\* Loyalty: two replicas and two rows; one failure anywhere; heartbeats may be
\* late.  Fees: one pair, changed by one administrator while one quote is asked
\* for.  Balances: one balance and other effects of the network.
\* Confirmations: two workers, two payments, one in a batch.  Schedules: one of
\* the recurring-payments contract, with a grace period shorter or longer than
\* the interval.  Vaults: two of one saver, rates and delays scaled down.
SPECIFICATION Spec
CONSTANTS
    Unowned = Unowned
    r1 = r1
    r2 = r2
    Replicas = {r1, r2}
    Slots = {1}
    TtlBeats = 2
    PromptTimers = FALSE
    MaxFaults = 1
    MaxJobs = 2
    Dust = {2}
    Pairs = {"usdc"}
    Admins = {"a1"}
    Quotes = {"q1"}
    MaxRows = 3
    MaxMinutes = 3
    CacheMinutes = 2
    MaxHitches = 1
    Balances = {"b1"}
    Listeners = {"l1"}
    MaxEffects = 3
    MaxLosses = 1
    MaxSnags = 1
    MaxPayments = 2
    Workers = {"c1", "c2"}
    BATCH_SIZE = 1
    MaxErrors = 1
    MaxTime = 7
    MaxSchedules = 1
    Intervals = {2}
    Graces = {1, 3}
    MissLimits = {2}
    Executions = {0, 2}
    Savers = {"u1"}
    MaxVaults = 2
    SavedSums = {8}
    TakenSums = {4, 8}
    Locks = {1}
    Rates = {2}
    MaxRate = 2
    FundingSums = {2}
    MaxFunds = 18
    DefaultMinLock = 1
    DefaultMaxLock = 3
    MinLocks = {2}
    Penalty = 2500
    RateUnit = 10
    EmergencyDelay = 1
INVARIANTS
    MintedOncePerOutcome
    ThreeAttempts
    QuotesRecent
    SavingsSafe
PROPERTIES
    ReleaseOnlyOwn
    RowsSettle
    LatestTakesOver
    BalancesRecorded
    EffectsSettle
    ConfirmedOnce
    ConfirmationsEnd
    ScheduleKept
CHECK_DEADLOCK FALSE
