\* As MCRulesApply, without edits inside a run or failed writes, under fairness.
CONSTANTS
    Procs = {watcher, webui}
    watcher = watcher
    webui = webui
    ModesOf <- MCModesOf
    Configs = {c1, c2}
    Broken = Broken
    Missing = Missing
    Torn = Torn
    MayCrash = TRUE
    MayEditInside = FALSE
    MayFailWrite = FALSE
SPECIFICATION FairSpec
PROPERTIES GuardConverges
