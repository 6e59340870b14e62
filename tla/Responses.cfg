SPECIFICATION AllSpec
CONSTANTS
    Execs = {1, 2, 3}
    Books = {b1, b2}
    Workers = {w1, w2}
    Operators = {o1, o2}
    Lookback = 2
    BatchSize = 2
    MaxCrashes = 1
    None = None
    Threshold = 3
    Limit = 2
    WindowLength = 2
    MaxTime = 3
    MaxCalls = 5
    MaxControls = 2
    Sessions = {s1, s2}
    Keys = {"a", "b"}
    Nobody = Nobody
    MaxCommands = 4
    MaxChanges = 1
    Playbooks = {"contain", "investigate", "report"}
    Drafts <- SmallDrafts
    Content <- SmallContent
    Alerts <- SmallAlerts
    MaxChainDepth = 3
    MaxRuns = 4
    MaxRequests = 1
    MaxRollbacks = 1
INVARIANTS SuppressedBehindDelivery LetterRetriedOnce ClosedMeansHealthy OneActiveBlock ShownHasRecord ChainIsAcyclic EveryStepAccounted
PROPERTY OnlySuccessCloses
SYMMETRY Interchangeable
CHECK_DEADLOCK FALSE
