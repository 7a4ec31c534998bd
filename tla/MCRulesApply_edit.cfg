\* One process; an edit may fall between its load and its hash.
CONSTANTS
    Procs = {watcher}
    watcher = watcher
    webui = webui
    ModesOf <- MCModesOf
    Configs = {c1, c2}
    Broken = Broken
    Missing = Missing
    Torn = Torn
    MayCrash = FALSE
    MayEditInside = TRUE
    MayFailWrite = FALSE
SPECIFICATION Spec
INVARIANTS HashOfLastApplied
