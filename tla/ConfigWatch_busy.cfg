\* Nobody edits a config for long, but other files of the directory keep changing.
CONSTANTS
    FileCount = 1
    MaxEdits = 1
    QueueSize = 2
    ReadMax = 2
    MayFail = FALSE
SPECIFICATION FairSpec
PROPERTIES NoticedIsApplied
