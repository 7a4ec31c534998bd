\* Three commands on two slots; every child may hang, exit or be slow, the first may
\* leave a heir of its pipe, and poll may fail.
CONSTANTS
    N = 3
    MaxConcurrent = 2
    ItemTimeout = 1
    TotalBudget = 2
    SpawnFailLimit = 2
    MaxTime = 3
    MaxOutput = 1
    PipeHolders = {1}
    PollMayFail = TRUE
SPECIFICATION FairSpec
INVARIANTS TypeOK ConcurrencyBound NoChildLost OkMeansExitedZero OutputComplete
           DeadlineEnforced CircuitJustified CompleteAtReturn
PROPERTIES NoSpawnAfterStop Returns ImplementsContract
