SPECIFICATION FairSpec
CONSTANTS
    Rows = {1, 2, 3}
    Workers = {w1, w2}
    Gated = {1, 3}
    Monitors = {2}
    Adapted = {}
    Protected = {3}
    Poison = {}
    MaxRetries = 2
    MaxFaults = 2
    NoRow = NoRow
PROPERTY EnqueuedSettles
CHECK_DEADLOCK FALSE
