SPECIFICATION PromptFairSpec
CONSTANTS
    MaxRuns = 3
    Threads = 1
    Targets = {t1, t2}
    Settings <- PlainSettings
    Subs = {s1, s2}
    Malformed = {}
    Ignores <- S2IgnoresOk
    Pages = {}
    Faults = {}
    NoDoc = NoDoc
    t1 = t1
    t2 = t2
    s1 = s1
    s2 = s2
    s3 = s3
CHECK_DEADLOCK FALSE
INVARIANTS SubscribersAreUpToDate OutcomeFollowsFromValues
PROPERTIES ImplementsAnnouncements
