SPECIFICATION FairSpec
CONSTANTS
    Execs = {1, 2, 3}
    Pair <- OddEvenPairs
    Workers = {w1}
    LastStep = 2
    Gates = {1}
    Continue = {2}
    Branch <- NoBranch
    Poison = {}
    BatchSize = 1
    MaxCrashes = 0
    MaxResumes = 1
    MaxSends = 1
    NoExec = NoExec
PROPERTY ExecutionSettles
