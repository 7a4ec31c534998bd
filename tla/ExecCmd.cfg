\* A child that writes a bounded output; it may close its stdout, hang, or leave a heir.
CONSTANTS
    Timeout = 3
    PipeSize = 2
    MaxWrites = 3
    Chatty = FALSE
    MayClose = TRUE
    MayFail = TRUE
    Heirs = TRUE
SPECIFICATION FairSpec
INVARIANTS TypeOK OkMeansExitedZero OutputComplete
PROPERTIES Returns
