\* A child that never stops writing.
CONSTANTS
    Timeout = 3
    PipeSize = 1
    MaxWrites = 0
    Chatty = TRUE
    MayClose = FALSE
    MayFail = FALSE
    Heirs = FALSE
SPECIFICATION FairSpec
PROPERTIES AlwaysReturns
