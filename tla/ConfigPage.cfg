\* The three pages on every kind of host, two texts, two clicks.
CONSTANTS
    Empty = empty
    Defaults = defaults
    Absent = absent
    Truncated = truncated
    Mixed = mixed
    Texts = {empty, defaults}
    Pages = {"rules", "games", "io"}
    HasKsu = {TRUE, FALSE}
    HasFi = {TRUE, FALSE}
    Serial = {TRUE, FALSE}
    MayFail = TRUE
    MaxClicks = 2
SPECIFICATION FairSpec
INVARIANTS TypeOK AppliesTheClick LastClickWins
PROPERTIES LoadKeepsEdits ApplyComesBack
CHECK_DEADLOCK FALSE
