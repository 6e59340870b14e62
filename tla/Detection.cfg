SPECIFICATION BothSpec
CONSTANTS
    Sessions = {s1, s2}
    Scenes <- SmallScenes
    Params <- SmallParams
    Limits <- SmallLimits
    CorrelationWindow <- SmallWindows
    Cooldown = 1
    Multiplier = 2
    None = None
    MaxEvents = 3
    MaxBatch = 2
    MaxTime = 1
    MaxChanges = 1
    MaxTokens = 5
    MaxDepth = 4
    MaxNodes = 9
    Rules <- SmallRules
    Batches <- SmallBatches
    Threshold = 2
    MaxHistory = 3
    Absent = Absent
SYMMETRY SessionSymmetry
INVARIANTS DuplicatesOverlap BurstIsSeen PatternIsSeen PreviewIsTheMeaning 
CHECK_DEADLOCK FALSE
