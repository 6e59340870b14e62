SPECIFICATION Spec
CONSTANTS
    Execs = {1, 2}
    Pair <- OwnPairs
    Workers = {w1, w2}
    LastStep = 3
    Gates = {2}
    Continue = {}
    Branch <- BranchOnExpiry
    Poison = {2}
    BatchSize = 2
    MaxCrashes = 1
    MaxResumes = 1
    MaxSends = 2
    NoExec = NoExec
SYMMETRY WorkerSymmetry
INVARIANTS OneOwner GatedStepApproved CommittedRowsAreWhole
 
