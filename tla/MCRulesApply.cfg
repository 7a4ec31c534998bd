\* Two processes, two configs, every kind of incident.
CONSTANTS
    Procs = {watcher, webui}
    watcher = watcher
    webui = webui
    ModesOf <- MCModesOf
    Configs = {c1, c2}
    Broken = Broken
    Missing = Missing
    Torn = Torn
    MayCrash = TRUE
    MayEditInside = TRUE
    MayFailWrite = TRUE
SPECIFICATION Spec
INVARIANTS TypeOK CacheMeansApplied PublishedAfterPass CacheWhole
PROPERTIES DryRunPure
