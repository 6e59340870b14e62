SPECIFICATION Spec
CONSTANTS
    Workers = {w1}
    Scenes <- SmallScenes
    Fresh = {9}
    MaxRuns = 2
    None = None
    Sessions = {s1, s2}
    Alerts = {1, 2, 3}
    CaseScenes <- SmallCaseScenes
    ManySources = 2
    MaxMoves = 1
    Analysts = {o1, o2}
    Requests = {q1, q2}
    MaxRecords = 3
    References = {r1, r2}
    MaxRequests = 3
SYMMETRY RecordSymmetry
INVARIANTS NoUnprovenExecution ReadersAgree  BundleIsClosed
PROPERTY ClosedQuietly
CHECK_DEADLOCK FALSE
