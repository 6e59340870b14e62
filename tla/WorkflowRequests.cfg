SPECIFICATION FairSpec
CONSTANTS
    Async = {a1}
    Loose = {l1}
    Sync = {s1}
    Notes = {n1}
    Workers = {w1, w2}
    MaxAttempts = 2
    MaxFaults = 2
    Nobody = Nobody
INVARIANTS OneExecution AnswerFollowsQuestion 
PROPERTY RequestSettles
CHECK_DEADLOCK FALSE
