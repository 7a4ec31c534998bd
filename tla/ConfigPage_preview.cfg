\* The rules page on KernelSU, with the watcher.
CONSTANTS
    Empty = empty
    Defaults = defaults
    Absent = absent
    Truncated = truncated
    Mixed = mixed
    Texts = {empty, defaults, t1}
    Pages = {"rules"}
    HasKsu = {TRUE}
    HasFi = {FALSE}
    Serial = {TRUE}
    MayFail = FALSE
    MaxClicks = 2
SPECIFICATION Spec
INVARIANTS PreviewIsNoCommit
CHECK_DEADLOCK FALSE
