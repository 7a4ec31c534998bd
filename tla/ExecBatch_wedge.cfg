\* The first of two commands may leave a process that keeps its stdout open.
CONSTANTS
    N = 2
    MaxConcurrent = 2
    ItemTimeout = 1
    TotalBudget = 2
    SpawnFailLimit = 2
    MaxTime = 3
    MaxOutput = 1
    PipeHolders = {1}
    PollMayFail = FALSE
SPECIFICATION FairSpec
PROPERTIES AlwaysReturns
