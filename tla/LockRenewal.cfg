\* Two replicas and one row; no failures, and every heartbeat on time.
SPECIFICATION LoyaltySpec
CONSTANTS
    Unowned = Unowned
    Replicas = {r1, r2}
    Slots = {1}
    TtlBeats = 3
    PromptTimers = TRUE
    MaxFaults = 0
    MaxJobs = 1
    Dust = {}
INVARIANT HolderOwnsOrKnows
CHECK_DEADLOCK FALSE
