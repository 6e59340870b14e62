SPECIFICATION LiveSpec
CONSTANTS
    Workers = {k1, k2}
    Requests = {1}
    Policies = {"newest", "coalesce"}
    Cadence = 2
    MaxCatchUp = 2
    Lookback = 5
    MaxAttempts = 2
    Outcomes = {"partial"}
    Start = 6
    MaxTime = 7
    MaxDeaths = 1
    Nobody = Nobody
    Gone = Gone
INVARIANT OneBriefingPerJob
PROPERTY JobsAreClosed
CHECK_DEADLOCK FALSE
