SPECIFICATION AllSpec
CONSTANTS
    Calls = {1, 2, 3}
    Cost <- CallCosts
    Reports = {1, 3}
    Caps = {2, 4}
    SourceCap = 3
    LastDay = 1
    MaxUpdates = 2
    NoPolicy = NoPolicy
    TurnScenes <- SmallTurnScenes
    Responses <- SmallResponses
    Answers <- SmallAnswers
    Framing = 1
    PacketLimit = 6
    PromptLimit = 8
    PlanLimit = 4
    MaxLimit = 2
    MaxEvidence = 1
    Bad = Bad
    Workers = {k1, k2}
    Subjects <- SmallSubjects
    Prints = {"open", "investigating"}
    Modes = {"local", "disabled", "oversized"}
    Replies <- SmallReplies
    Sections = {"alerts_reviewed", "escalations", "recommendations"}
    MaxEntities = 2
    MaxCalls = 3
    CallCap = 2
    Horizon = 3
    MaxTime = 2
    MaxChanges = 1
    Inquiries <- SmallInquiries
    Inside <- SmallInside
    CallsPerPass = 5
    DraftCalls = 3
    MaxEdits = 1
    None = None
    Parts = {"paid", "turn", "scheduled", "inquiry"}
INVARIANTS BooksBalance WithinDailyCap LookupStaysOnEntity 
    SkippedWasReported SuccessIsWhole DraftIsSound
 
CHECK_DEADLOCK FALSE
