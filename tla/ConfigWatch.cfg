\* The three config files of MAPPINGS, two changes of each, changes of other files
\* without end, a queue of four events.
CONSTANTS
    FileCount = 3
    MaxEdits = 2
    QueueSize = 4
    ReadMax = 2
    MayFail = TRUE
SPECIFICATION FairSpec
INVARIANTS TypeOK NoLostEdit
PROPERTIES Converges StopHonoured
