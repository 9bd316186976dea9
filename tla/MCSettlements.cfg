\* The panel: members, quorum and officials change while a dispute is voted
\* on.  The records: one dispute, two requests served at once, one evidence
\* row, and time for an appeal window to pass.  The agent-escrow contract: two
\* escrows; the insurance rates are scaled up so that small amounts have a
\* share.  The channels: one, with two requests served at once and one other
\* transaction of the wallet, which may as well be another channel's.
SPECIFICATION Spec
CONSTANTS
    a1 = a1
    a2 = a2
    o1 = o1
    o2 = o2
    o3 = o3
    Accounts = {a1, a2}
    Officials = {o1, o2, o3}
    Nobody = Nobody
    Admin = o1
    Arbitrator = o2
    SuperArbitrator = o3
    MaxTime = 2
    MaxDisputes = 1
    DeadlineSecs = 1
    AppealSecs = 1
    MaxArbitrators = 3
    DefaultQuorumBps = 6001
    DefaultFilingFee = 2
    MaxFilingFee = 500000000
    Claims <- OneClaim
    Backings = {}
    Witnesses = {a1}
    FilingFees = {}
    Quorums = {3000}
    Appointments = {"panel", "quorum", "paused", "nominee", "super", "distributor"}
    Callers = {"u1", "u2"}
    EvidenceLimit = 1
    PayoutAgents = {"g1", "g2"}
    NoAgent = "none"
    MaxPayouts = 2
    PayoutSums = {40}
    PayoutFees = {5000}
    PartSums = {15, 25}
    ShareRates = {10000}
    MaxShareBps = 10000
    DefaultShareBps = 5000
    FeeTakings = {7}
    Channels = {"c1"}
    ChannelCallers = {"u1", "u2"}
    Fundings = {4}
    ChannelSums = {3, 4}
    MaxExtra = 1
    MaxSigned = 3
    MaxForeign = 1
INVARIANTS
    PayoutsSafe
    ChannelsSound
PROPERTIES
    PanelDecides
    RowTellsRuling
CHECK_DEADLOCK FALSE
