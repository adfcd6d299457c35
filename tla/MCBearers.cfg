SPECIFICATION BearersSpec
CONSTANTS
    f1 = f1
    f2 = f2
    Fetchers = {f1, f2}
    Modes = {"plain", "report", "sync"}
    MaxRetries = 3
    MayStop = TRUE
    MayClose = TRUE
    MayLeave = TRUE
    Users = {r1, r2}
    Tabs = {t1, t2}
    Absent = Absent
    MaxVersion = 3
    MaxTrials = 2
INVARIANTS RenewedIsNew NoFetchForgotten SourcesSound
PROPERTIES FetchesSettle
CHECK_DEADLOCK FALSE
