SPECIFICATION PromptSpec
CONSTANTS
    MaxRuns = 3
    Threads = 1
    Targets = {t1}
    Settings <- AllSettings
    Subs = {s1, s2}
    Malformed = {s2}
    Ignores <- S2IgnoresOk
    Pages = {}
    Faults = {"exception", "restart"}
    NoDoc = NoDoc
    t1 = t1
    t2 = t2
    s1 = s1
    s2 = s2
    s3 = s3
CHECK_DEADLOCK FALSE
INVARIANTS NoticeShowsItsLevel ToldOnlyOfChanges
PROPERTIES AlertsStartFromCurrentState OneTimeRatchet FaultsLoseOnlyPending
