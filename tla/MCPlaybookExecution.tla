------------------------ MODULE MCPlaybookExecution ------------------------
\* Instances of PlaybookExecution for TLC.
EXTENDS PlaybookExecution, TLC

\* Each execution has its own (playbook, alert) pair, or every other one shares a pair.
OwnPairs == [e \in Execs |-> e]
OddEvenPairs == [e \in Execs |-> e % 2]

\* The refusals after which a gate branches instead of stopping.
NoBranch == {}
BranchOnExpiry == Gates \X {"expired"}

\* Workers are interchangeable; used in the runs that check no liveness.
WorkerSymmetry == Permutations(Workers)
=============================================================================
