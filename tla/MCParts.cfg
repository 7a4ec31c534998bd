\* The lists, settings, log, pickers and games' form, on every kind of host, and the
\* mirroring thread.
CONSTANTS
    HasKsu = {TRUE, FALSE}
    HasFi = {TRUE, FALSE}
    Serial = {TRUE, FALSE}
    Tags = {p, q}
    AnyTag = p
    NoTag = none
    Lists = {"components", "appops", "games", "io"}
    MaxIds = 3
    MaxToggles = 3
    MaxExports = 2
    MaxLines = 3
    MaxLoads = 2
    Kinds = {"comp", "appop"}
    PackageTexts <- MCPackageTexts
    NameTexts <- MCNameTexts
    SafeDigits = 2
    MaxRequests = 2
    MaxSegments = 3
    MaxStarts = 3
    ScanTurns = 2
SPECIFICATION MCSpec
INVARIANTS TypeOK SwitchTruth AddedIsKept QuietList
           QuietGameIsApplied
PROPERTIES TapHitsItsRow ResultKept LogWhole SpinnerEnds AdbdReniced
CHECK_DEADLOCK FALSE
