SPECIFICATION Spec
CONSTANTS
    Rows = {1, 2, 3, 4}
    Workers = {w1, w2}
    Gated = {1, 2}
    Monitors = {3}
    Adapted = {4}
    Protected = {}
    Poison = {2}
    MaxRetries = 2
    MaxFaults = 2
    NoRow = NoRow
SYMMETRY WorkerSymmetry
INVARIANT FailedRowNotExecuted
PROPERTY KeepsPromise
CHECK_DEADLOCK FALSE
