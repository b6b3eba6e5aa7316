SPECIFICATION FairSpec
CONSTANTS
    MaxRuns = 2
    Threads = 2
    Targets = {t1}
    Settings <- PlainSettings
    Subs = {s1, s2, s3}
    Malformed = {s3}
    Ignores <- S2IgnoresOk
    Pages = {}
    Faults = {}
    NoDoc = NoDoc
    t1 = t1
    t2 = t2
    s1 = s1
    s2 = s2
    s3 = s3
    s3 = s3
CHECK_DEADLOCK FALSE
INVARIANTS OneStoryPerRun
PROPERTIES EveryRunEnds EverySubscriptionIsTried
